---- MODULE Spec2Model ----
(***************************************************************************)
(* Verification model of the reverse-tetris decision engine: the board,    *)
(* the two rotation systems (SRS with kicks, NRS without), the reachable-  *)
(* placement enumerator, the feature extractor / evaluator, the planners   *)
(* (greedy, expectimax, beam) and the Game that applies their placements.  *)
(*                                                                         *)
(* Numbers are integers.  Scores are kept exactly: the weights are the     *)
(* source's decimals times 100 and landingHeight is kept doubled, so a     *)
(* score of the model is 200 times the score of the code.                  *)
(***************************************************************************)
EXTENDS Integers, Sequences, FiniteSets, TLC

(***************************************************************************)
(* Bounds of the model.  The code's boards are 10 wide and 22..40 high;    *)
(* the model keeps the code's arithmetic and shrinks only the dimensions.  *)
(***************************************************************************)
BoardW == 4
VisibleH == 3
BufferRows == 2
\* Board operations of SpecBoard touch rows below FillRows only.
FillRows == 2
\* Operations applied to a board and its clone before the clone is dropped.
MaxCloneOps == 1
\* Most filled cells a board of SpecBoard holds.
MaxBoardFilled == 5
\* SpecClear clears boards whose cells lie in the rows below ClearRows.
ClearRows == 3
\* Filled cells of the boards SpecPlace enumerates placements on.
MaxFilled == 3
\* previewCount of modernMode (5 in mode.ts).
ModernPreview == 1
\* Filled cells of the boards SpecPlan hands to the planners.
MaxPlanFilled == 2
\* Largest depth and beamWidth SpecPlan calls the planners with.
MaxPlanDepth == 1
MaxPlanWidth == 1
\* Placements SpecGame follows a game for.
MaxMoves == 2
\* SpecGame plays beam search of depth GameDepth and beamWidth GameWidth.
GameDepth == 2
GameWidth == 2
\* The randomizer of SpecGame generates the first NumGamePieces pieces.
NumGamePieces == 4
\* Cells a harness fills on a new game's board (game.board.set).
MaxPreset == 1
MaxTuneFilled == 1
MaxTuneDepth == 2
MaxTuneWidth == 2
\* SpecRotate: at most this many preset cells
MaxRotFilled == 2
\* SpecFeat: filled cells of the board, and lines the placement cleared
MaxFeatFilled == 3
MaxFeatLines == 1
\* SpecCalls: candidates per list, their metrics, and the branch values
MaxCands == 3
MaxLeaf == 1
MaxHoles == 1
MaxBranch == 1
\* SpecSim: filled cells of the board passed in, pieces, and calls in a row
MaxSimFilled == 3
NumSimPieces == 2
MaxSimCalls == 2
\* SpecHold: pieces drawn, and pieces locked in a game
NumHoldPieces == 2
MaxHoldPlaced == 3
\* SpecRandom: seeds, draws of the original and of the clone, calls of peek
\* and clone on the original
NumSeeds == 2
MaxDraws == 14
MaxCloneDraws == 3
MaxSideCalls == 2
\* SpecAnim: filled cells of the board
MaxAnimFilled == 2
\* SpecBeam: configured depth, filled cells of the snapshot's board
MaxBeamDepth == 3
MaxBeamFilled == 1
\* SpecBfs: filled cells of the board
MaxBfsFilled == 1
\* SpecSimple: filled cells of the board
MaxSimpleFilled == 1
\* SpecWeb: previewCount of the modern mode, piece types the player picks
\* from, bot moves of one game, calls of cancelAll
WebPreview == 2
NumWebPieces == 2
MaxWebMoves == 2
MaxCancels == 2

TotalH == VisibleH + BufferRows

(***************************************************************************)
(* types.ts: Piece and Rotation enums.                                     *)
(***************************************************************************)
PieceI == 0
PieceO == 1
PieceT == 2
PieceS == 3
PieceZ == 4
PieceJ == 5
PieceL == 6
PIECE_COUNT == 7
Pieces == 0 .. (PIECE_COUNT - 1)
R0 == 0
R1 == 1
R2 == 2
R3 == 3
Rotations == 0 .. 3

\* An optional value (T | null) is a sequence of length 0 or 1.
Null == << >>
Some(v) == << v >>

V(px, py) == [x |-> px, y |-> py]

(***************************************************************************)
(* constants.ts: PIECE_CELLS[piece][rotation], indexed from 0 as in the    *)
(* source (the model's sequences are 1-based, hence the +1).               *)
(***************************************************************************)
PIECE_CELLS_TABLE ==
  << \* I
     << << V(0,2), V(1,2), V(2,2), V(3,2) >>,
        << V(2,0), V(2,1), V(2,2), V(2,3) >>,
        << V(0,1), V(1,1), V(2,1), V(3,1) >>,
        << V(1,0), V(1,1), V(1,2), V(1,3) >> >>,
     \* O
     << << V(1,1), V(2,1), V(1,2), V(2,2) >>,
        << V(1,1), V(2,1), V(1,2), V(2,2) >>,
        << V(1,1), V(2,1), V(1,2), V(2,2) >>,
        << V(1,1), V(2,1), V(1,2), V(2,2) >> >>,
     \* T
     << << V(1,2), V(0,1), V(1,1), V(2,1) >>,
        << V(1,2), V(1,1), V(2,1), V(1,0) >>,
        << V(0,1), V(1,1), V(2,1), V(1,0) >>,
        << V(1,2), V(0,1), V(1,1), V(1,0) >> >>,
     \* S
     << << V(1,2), V(2,2), V(0,1), V(1,1) >>,
        << V(1,2), V(1,1), V(2,1), V(2,0) >>,
        << V(1,1), V(2,1), V(0,0), V(1,0) >>,
        << V(0,2), V(0,1), V(1,1), V(1,0) >> >>,
     \* Z
     << << V(0,2), V(1,2), V(1,1), V(2,1) >>,
        << V(2,2), V(1,1), V(2,1), V(1,0) >>,
        << V(0,1), V(1,1), V(1,0), V(2,0) >>,
        << V(1,2), V(0,1), V(1,1), V(0,0) >> >>,
     \* J
     << << V(0,2), V(0,1), V(1,1), V(2,1) >>,
        << V(1,2), V(2,2), V(1,1), V(1,0) >>,
        << V(0,1), V(1,1), V(2,1), V(2,0) >>,
        << V(1,2), V(1,1), V(0,0), V(1,0) >> >>,
     \* L
     << << V(2,2), V(0,1), V(1,1), V(2,1) >>,
        << V(1,2), V(1,1), V(1,0), V(2,0) >>,
        << V(0,1), V(1,1), V(2,1), V(0,0) >>,
        << V(0,2), V(1,2), V(1,1), V(1,0) >> >> >>

PIECE_CELLS(piece, rotation) == PIECE_CELLS_TABLE[piece + 1][rotation + 1]

\* constants.ts: the kick lists, keyed "from>to" in the source and by
\* 4*from + to + 1 here (only the eight quarter-turn keys exist).
JLSTZ_KICKS(from, to) ==
  CASE from = 0 /\ to = 1 -> << V(0,0), V(-1,0), V(-1,1), V(0,-2), V(-1,-2) >>
    [] from = 1 /\ to = 0 -> << V(0,0), V(1,0), V(1,-1), V(0,2), V(1,2) >>
    [] from = 1 /\ to = 2 -> << V(0,0), V(1,0), V(1,-1), V(0,2), V(1,2) >>
    [] from = 2 /\ to = 1 -> << V(0,0), V(-1,0), V(-1,1), V(0,-2), V(-1,-2) >>
    [] from = 2 /\ to = 3 -> << V(0,0), V(1,0), V(1,1), V(0,-2), V(1,-2) >>
    [] from = 3 /\ to = 2 -> << V(0,0), V(-1,0), V(-1,-1), V(0,2), V(-1,2) >>
    [] from = 3 /\ to = 0 -> << V(0,0), V(-1,0), V(-1,-1), V(0,2), V(-1,2) >>
    [] from = 0 /\ to = 3 -> << V(0,0), V(1,0), V(1,1), V(0,-2), V(1,-2) >>

I_KICKS(from, to) ==
  CASE from = 0 /\ to = 1 -> << V(1,0), V(-1,0), V(2,0), V(-1,1), V(2,-2) >>
    [] from = 1 /\ to = 0 -> << V(-1,0), V(1,0), V(-2,0), V(1,-1), V(-2,2) >>
    [] from = 1 /\ to = 2 -> << V(0,1), V(-1,1), V(2,1), V(-1,-1), V(2,2) >>
    [] from = 2 /\ to = 1 -> << V(0,-1), V(1,-1), V(-2,-1), V(1,1), V(-2,-2) >>
    [] from = 2 /\ to = 3 -> << V(-1,0), V(1,0), V(-2,0), V(1,-1), V(-2,2) >>
    [] from = 3 /\ to = 2 -> << V(1,0), V(-1,0), V(2,0), V(-1,1), V(2,-2) >>
    [] from = 3 /\ to = 0 -> << V(0,-1), V(1,-1), V(-2,-1), V(1,1), V(-2,-2) >>
    [] from = 0 /\ to = 3 -> << V(0,1), V(-1,1), V(2,1), V(-1,-1), V(2,2) >>

PIECE_BBOX_W(piece) == IF piece = PieceI THEN 4 ELSE 3

\* constants.ts getSpawnPosition: Math.floor((width - bboxW) / 2); \div floors.
getSpawnPosition(piece, width, height) ==
  V((width - PIECE_BBOX_W(piece)) \div 2,
    IF piece = PieceI THEN height - 2 ELSE height - 1)

getSpawnPositionNRS(piece, width, height) ==
  V((width - PIECE_BBOX_W(piece)) \div 2,
    height - (IF piece = PieceI THEN 4 ELSE 3))

\* Every piece spawning in R0, as under the kick-based rules.
NRS_SPAWN_ROTATION_R0(piece) == R0

NRS_SPAWN_ROTATION(piece) == IF piece \in {PieceI, PieceO} THEN R0 ELSE R2

(***************************************************************************)
(* board.ts: a Board is its cells (row-major, row 0 at the bottom) and the *)
(* cached column heights, with its totalHeight; its width is BoardW.       *)
(***************************************************************************)
\* new Board(BoardW, totalHeight)
NewBoard(totalHeight) ==
  [totalHeight |-> totalHeight,
   cells |-> [i \in 0 .. (BoardW * totalHeight - 1) |-> 0],
   colHeights |-> [c \in 0 .. (BoardW - 1) |-> 0]]

EmptyBoard == NewBoard(TotalH)

BoardGet(b, x, y) ==
  IF x < 0 \/ x >= BoardW \/ y < 0 \/ y >= b.totalHeight THEN FALSE
  ELSE b.cells[y * BoardW + x] = 1

\* The while loop of Board.set / rebuildColumnHeights: lower h while the cell
\* under it is empty.
ScanDownOnce(cells, x, h) ==
  IF h > 0 /\ cells[(h - 1) * BoardW + x] = 0 THEN h - 1 ELSE h

RECURSIVE ScanDown(_, _, _)
ScanDown(cells, x, h) ==
  IF h > 0 /\ cells[(h - 1) * BoardW + x] = 0 THEN ScanDown(cells, x, h - 1) ELSE h

BoardSet(b, x, y, val) ==
  LET idx == y * BoardW + x
      cells1 == [b.cells EXCEPT ![idx] = IF val THEN 1 ELSE 0]
  IN  IF val
      THEN [b EXCEPT !.cells = cells1,
                     !.colHeights = IF y + 1 > b.colHeights[x]
                                    THEN [b.colHeights EXCEPT ![x] = y + 1]
                                    ELSE b.colHeights]
      ELSE [b EXCEPT !.cells = cells1,
                     !.colHeights = IF y + 1 = b.colHeights[x]
                                    THEN [b.colHeights EXCEPT ![x] = ScanDown(cells1, x, y)]
                                    ELSE b.colHeights]

getColumnHeight(b, col) == b.colHeights[col]

RECURSIVE MaxHeightFrom(_, _, _)
MaxHeightFrom(b, c, max) ==
  IF c >= BoardW THEN max
  ELSE MaxHeightFrom(b, c + 1, IF b.colHeights[c] > max THEN b.colHeights[c] ELSE max)

getMaxHeight(b) == MaxHeightFrom(b, 0, 0)

\* The row scan stopping one column short.
isRowFullShort(cells, row) == \A x \in 0 .. (BoardW - 2) : cells[row * BoardW + x] # 0

isRowFull(cells, row) == \A x \in 0 .. (BoardW - 1) : cells[row * BoardW + x] # 0

rebuildColumnHeights(cells, totalHeight) ==
  [x \in 0 .. (BoardW - 1) |-> ScanDown(cells, x, totalHeight)]

\* copyWithin(dst, src, src + width) of one row.
CopyRow(cells, writeRow, readRow) ==
  [i \in DOMAIN cells |->
     IF i >= writeRow * BoardW /\ i < (writeRow + 1) * BoardW
     THEN cells[readRow * BoardW + (i - writeRow * BoardW)]
     ELSE cells[i]]

\* The compaction loop of clearLines; returns [cells, writeRow, cleared].
RECURSIVE ClearLoop(_, _, _, _, _)
ClearLoop(cells, totalHeight, readRow, writeRow, cleared) ==
  IF readRow >= totalHeight
  THEN [cells |-> cells, writeRow |-> writeRow, cleared |-> cleared]
  ELSE IF isRowFull(cells, readRow)
       THEN ClearLoop(cells, totalHeight, readRow + 1, writeRow, Append(cleared, readRow))
       ELSE ClearLoop(IF writeRow # readRow THEN CopyRow(cells, writeRow, readRow) ELSE cells,
                      totalHeight, readRow + 1, writeRow + 1, cleared)

\* clearLines: returns the mutated board with the result {count, rows}.
clearLines(b) ==
  LET r == ClearLoop(b.cells, b.totalHeight, 0, 0, << >>)
      cells1 == [i \in DOMAIN b.cells |->
                   IF i >= r.writeRow * BoardW THEN 0 ELSE r.cells[i]]
  IN  [board |-> [b EXCEPT !.cells = cells1,
                           !.colHeights = IF Len(r.cleared) > 0
                                          THEN rebuildColumnHeights(cells1, b.totalHeight)
                                          ELSE b.colHeights],
       count |-> Len(r.cleared),
       rows |-> r.cleared]

Collides(b, piece, rotation, px, py) ==
  \E i \in 1 .. 4 :
    \E cell \in {PIECE_CELLS(piece, rotation)[i]} :
      LET bx == px + cell.x
          by == py + cell.y
      IN  \/ bx < 0 \/ bx >= BoardW \/ by < 0 \/ by >= b.totalHeight
          \/ b.cells[by * BoardW + bx] = 1

\* placePiece: st = [board, placed]; truncateAbove is Null (undefined) or Some(h).
RECURSIVE PlaceLoop(_, _, _, _, _, _, _)
PlaceLoop(b, cells, i, px, py, truncateAbove, placed) ==
  IF i > Len(cells) THEN [board |-> b, placed |-> placed]
  ELSE LET bx == px + cells[i].x
           by == py + cells[i].y
       IN  IF truncateAbove # Null /\ by >= truncateAbove[1]
           THEN PlaceLoop(b, cells, i + 1, px, py, truncateAbove, placed)
           ELSE PlaceLoop(BoardSet(b, bx, by, TRUE), cells, i + 1, px, py, truncateAbove,
                          Append(placed, V(bx, by)))

\* A placePiece that writes the cells above truncateAbove too.
placePieceWhole(b, piece, rotation, px, py, truncateAbove) ==
  PlaceLoop(b, PIECE_CELLS(piece, rotation), 1, px, py, Null, << >>)

placePiece(b, piece, rotation, px, py, truncateAbove) ==
  PlaceLoop(b, PIECE_CELLS(piece, rotation), 1, px, py, truncateAbove, << >>)

\* clone: a new Board with copies of both arrays.
clone(b) == [totalHeight |-> b.totalHeight, cells |-> b.cells, colHeights |-> b.colHeights]

(***************************************************************************)
(* rotation.ts / srs.ts / nrs.ts: the rotation systems.  A RotateResult is  *)
(* [x, y, rotation]; the functions return Some(result) or Null.            *)
(***************************************************************************)
rotationCW(rot) == (rot + 1) % 4
rotationCCW(rot) == (rot + 3) % 4

\* The kick table with the I piece's rows taken from the shared table.
getKickTableShared(piece, from, to) == JLSTZ_KICKS(from, to)

getKickTable(piece, from, to) ==
  IF piece = PieceI THEN I_KICKS(from, to)
  ELSE IF piece = PieceO THEN << >>
  ELSE JLSTZ_KICKS(from, to)

RECURSIVE KickLoop(_, _, _, _, _, _, _)
KickLoop(b, piece, toRot, x, y, kicks, i) ==
  IF i > Len(kicks) THEN Null
  ELSE LET nx == x + kicks[i].x
           ny == y + kicks[i].y
       IN  IF ~Collides(b, piece, toRot, nx, ny)
           THEN Some([x |-> nx, y |-> ny, rotation |-> toRot])
           ELSE KickLoop(b, piece, toRot, x, y, kicks, i + 1)

tryRotate(b, piece, fromRot, direction, x, y) ==
  LET toRot == IF direction = 1 THEN rotationCW(fromRot) ELSE rotationCCW(fromRot)
  IN  IF piece = PieceO
      THEN IF ~Collides(b, piece, toRot, x, y)
           THEN Some([x |-> x, y |-> y, rotation |-> toRot])
           ELSE Null
      ELSE KickLoop(b, piece, toRot, x, y, getKickTable(piece, fromRot, toRot), 1)

\* A table in which every piece but O steps through the four states.
nrsNextRotationAllCycle(piece, fromRot, direction) ==
  IF piece = PieceO THEN Null
  ELSE IF direction = 1 THEN Some((fromRot + 1) % 4)
  ELSE Some((fromRot + 3) % 4)

nrsNextRotation(piece, fromRot, direction) ==
  IF piece = PieceO THEN Null
  ELSE IF piece = PieceS \/ piece = PieceZ
       THEN Some(IF fromRot = R1 THEN R2 ELSE R1)
  ELSE IF piece = PieceI
       THEN Some(IF fromRot = R0 THEN R1 ELSE R0)
  ELSE IF direction = 1 THEN Some((fromRot + 1) % 4)
  ELSE Some((fromRot + 3) % 4)

\* The NRS rotation without its collision test.
tryRotateNRSUnchecked(b, piece, fromRot, direction, x, y) ==
  LET toRot == nrsNextRotation(piece, fromRot, direction)
  IN  IF toRot = Null THEN Null
      ELSE Some([x |-> x, y |-> y, rotation |-> toRot[1]])

\* The NRS rotation with the kick list of the other system tried at its target.
tryRotateNRSKicked(b, piece, fromRot, direction, x, y) ==
  LET toRot == nrsNextRotation(piece, fromRot, direction)
  IN  IF toRot = Null THEN Null
      ELSE KickLoop(b, piece, toRot[1], x, y, getKickTable(piece, fromRot, toRot[1]), 1)

tryRotateNRS(b, piece, fromRot, direction, x, y) ==
  LET toRot == nrsNextRotation(piece, fromRot, direction)
  IN  IF toRot = Null THEN Null
      ELSE IF ~Collides(b, piece, toRot[1], x, y)
           THEN Some([x |-> x, y |-> y, rotation |-> toRot[1]])
           ELSE Null

\* A TryRotateFn value is the tag "srs" or "nrs"; calling it dispatches.
RotateFns == {"srs", "nrs"}
CallRotate(rotateFn, b, piece, fromRot, direction, x, y) ==
  IF rotateFn = "nrs" THEN tryRotateNRS(b, piece, fromRot, direction, x, y)
  ELSE tryRotate(b, piece, fromRot, direction, x, y)

(***************************************************************************)
(* placement.ts: generatePlacements, the BFS over (x, y, rotation).  The   *)
(* callers (expectimax.ts:96, beam.ts:150) pass the rotation function and  *)
(* the spawn rotation as fifth and sixth argument; placement.ts:50,63,111  *)
(* has SRS and R0 in their place.  The body below is placement.ts with the *)
(* two made parameters.                                                    *)
(***************************************************************************)
\* The index without the padding of 4.
encodeStateNoPad(x, y, rot, stride) == (y * stride + x) * 4 + rot

encodeState(x, y, rot, stride) == ((y + 4) * stride + (x + 4)) * 4 + rot

\* `${rotation},${x},${y}`: decimal rendering joined by commas is injective
\* on integer triples, so the key is the triple.
\* The key without the row.
groundedKeyNoRow(s) == << s.rotation, s.x >>

groundedKeyOf(s) == << s.rotation, s.x, s.y >>

St(px, py, rot) == [x |-> px, y |-> py, rotation |-> rot]

\* Visit without the `!visited[idx]` test: every state in range is pushed.
VisitAgain(bfs, x, y, rot, stride, visitedSize) ==
  LET idx == encodeState(x, y, rot, stride)
  IN  IF idx >= 0 /\ idx < visitedSize
      THEN [visited |-> bfs.visited \cup {idx}, queue |-> Append(bfs.queue, St(x, y, rot))]
      ELSE bfs

\* if (idx >= 0 && idx < visitedSize && !visited[idx]) { visited[idx] = 1; queue.push(..) }
\* bfs = [visited, queue]
Visit(bfs, x, y, rot, stride, visitedSize) ==
  LET idx == encodeState(x, y, rot, stride)
  IN  IF idx >= 0 /\ idx < visitedSize /\ idx \notin bfs.visited
      THEN [visited |-> bfs.visited \cup {idx}, queue |-> Append(bfs.queue, St(x, y, rot))]
      ELSE bfs

VisitRotation(bfs, b, piece, rotateFn, s, dir, stride, visitedSize) ==
  CHOOSE out \in
    {IF result # Null
     THEN Visit(bfs, result[1].x, result[1].y, result[1].rotation, stride, visitedSize)
     ELSE bfs :
       result \in {CallRotate(rotateFn, b, piece, s.rotation, dir, s.x, s.y)}} : TRUE

VisitLateral(bfs, b, piece, s, dx, stride, visitedSize) ==
  IF ~Collides(b, piece, s.rotation, s.x + dx, s.y)
  THEN Visit(bfs, s.x + dx, s.y, s.rotation, stride, visitedSize)
  ELSE bfs

\* One iteration of `while (head < queue.length)`; head is 1-based here.
RECURSIVE BfsLoop(_, _, _, _, _, _, _, _, _)
BfsLoop(b, piece, rotateFn, stride, visitedSize, bfs, head, groundedKey, placements) ==
  IF head > Len(bfs.queue) THEN placements
  ELSE
    LET s == bfs.queue[head]
        canMoveDown == ~Collides(b, piece, s.rotation, s.x, s.y - 1)
        key == groundedKeyOf(s)
        record == ~canMoveDown /\ key \notin groundedKey
        bfs1 == IF canMoveDown
                THEN Visit(bfs, s.x, s.y - 1, s.rotation, stride, visitedSize)
                ELSE bfs
        bfs2 == VisitLateral(bfs1, b, piece, s, -1, stride, visitedSize)
        bfs3 == VisitLateral(bfs2, b, piece, s, 1, stride, visitedSize)
        bfs4 == VisitRotation(bfs3, b, piece, rotateFn, s, 1, stride, visitedSize)
        bfs5 == VisitRotation(bfs4, b, piece, rotateFn, s, -1, stride, visitedSize)
    IN  BfsLoop(b, piece, rotateFn, stride, visitedSize, bfs5, head + 1,
                IF record THEN groundedKey \cup {key} ELSE groundedKey,
                IF record
                THEN Append(placements,
                            [piece |-> piece, rotation |-> s.rotation, x |-> s.x, y |-> s.y])
                ELSE placements)

\* The body of `while (head < queue.length)` for the state at head: the
\* locals [visited, queue, head, groundedKey, placements] after it.
BfsIteration(b, piece, rotateFn, stride, visitedSize, run) ==
  LET s == run.queue[run.head]
      canMoveDown == ~Collides(b, piece, s.rotation, s.x, s.y - 1)
      key == groundedKeyOf(s)
      record == ~canMoveDown /\ key \notin run.groundedKey
      bfs == [visited |-> run.visited, queue |-> run.queue]
      bfs1 == IF canMoveDown
              THEN Visit(bfs, s.x, s.y - 1, s.rotation, stride, visitedSize)
              ELSE bfs
      bfs2 == VisitLateral(bfs1, b, piece, s, -1, stride, visitedSize)
      bfs3 == VisitLateral(bfs2, b, piece, s, 1, stride, visitedSize)
      bfs4 == VisitRotation(bfs3, b, piece, rotateFn, s, 1, stride, visitedSize)
      bfs5 == VisitRotation(bfs4, b, piece, rotateFn, s, -1, stride, visitedSize)
  IN  [visited |-> bfs5.visited, queue |-> bfs5.queue, head |-> run.head + 1,
       groundedKey |-> IF record THEN run.groundedKey \cup {key} ELSE run.groundedKey,
       placements |-> IF record
                      THEN Append(run.placements,
                                  [piece |-> piece, rotation |-> s.rotation, x |-> s.x,
                                   y |-> s.y])
                      ELSE run.placements]

\* The locals of generatePlacements when the loop is entered.
BfsEntry(b, spawnX, spawnY, spawnRot) ==
  LET stride == BoardW + 8
      visitedSize == (b.totalHeight + 8) * stride * 4
      startIdx == encodeState(spawnX, spawnY, spawnRot, stride)
  IN  [visited |-> IF startIdx >= 0 /\ startIdx < visitedSize THEN {startIdx} ELSE {},
       queue |-> << St(spawnX, spawnY, spawnRot) >>, head |-> 1, groundedKey |-> {},
       placements |-> << >>]

generatePlacements(b, piece, spawnX, spawnY, rotateFn, spawnRot) ==
  IF Collides(b, piece, spawnRot, spawnX, spawnY) THEN << >>
  ELSE
    LET stride == BoardW + 8
        visitedSize == (b.totalHeight + 8) * stride * 4
        startIdx == encodeState(spawnX, spawnY, spawnRot, stride)
        visited == IF startIdx >= 0 /\ startIdx < visitedSize THEN {startIdx} ELSE {}
    IN  BfsLoop(b, piece, rotateFn, stride, visitedSize,
                [visited |-> visited, queue |-> << St(spawnX, spawnY, spawnRot) >>],
                1, {}, << >>)

(***************************************************************************)
(* game.ts: Game.simulatePlacement.  visibleHeight and truncateAbove are   *)
(* Null (undefined) or Some(n).  Returns Null or Some of the result.       *)
(***************************************************************************)
CountIn(cells, rows) ==
  Cardinality({i \in 1 .. Len(cells) : \E k \in 1 .. Len(rows) : rows[k] = cells[i].y})

simulatePlacement(board, piece, rotation, x, y, visibleHeight, truncateAbove) ==
  IF Collides(clone(board), piece, rotation, x, y) THEN Null
  ELSE
    CHOOSE out \in
      {LET landingCells == placed.placed
       IN  IF Len(landingCells) = 0 THEN Null
           ELSE IF /\ visibleHeight # Null /\ truncateAbove = Null
                   /\ \A i \in 1 .. Len(landingCells) :
                        landingCells[i].y >= visibleHeight[1]
           THEN Null
           ELSE CHOOSE res \in
                  {Some([board |-> cl.board,
                         linesCleared |-> cl.count,
                         pieceCellsInCleared |->
                           IF cl.count > 0 THEN CountIn(landingCells, cl.rows) ELSE 0,
                         landingCells |-> landingCells]) :
                     cl \in {clearLines(placed.board)}} : TRUE :
         placed \in {PlaceLoop(clone(board), PIECE_CELLS(piece, rotation), 1, x, y,
                               truncateAbove, << >>)}} : TRUE

(***************************************************************************)
(* features.ts: extractFeatures (the 8 BCTS features).  landingHeight is   *)
(* (minY + maxY) / 2 in the source; the model keeps landingHeight2 =       *)
(* minY + maxY.  The counting loops are rendered as sums and cardinalities. *)
(***************************************************************************)
RECURSIVE SumUpTo(_, _)
\* f[0] + ... + f[n]
SumUpTo(f, n) == IF n < 0 THEN 0 ELSE f[n] + SumUpTo(f, n - 1)

MinOf(S) == CHOOSE m \in S : \A z \in S : m <= z
MaxOf(S) == CHOOSE m \in S : \A z \in S : z <= m

extractFeatures(board, landingCellYs, linesCleared, pieceCellsInCleared) ==
  LET w == BoardW
      h == board.totalHeight
      ys == {landingCellYs[i] : i \in 1 .. Len(landingCellYs)}
      colHeight == [x \in 0 .. (w - 1) |-> getColumnHeight(board, x)]
      maxColHeight == MaxOf({colHeight[x] : x \in 0 .. (w - 1)})
      filled(x, y) == BoardGet(board, x, y)
      \* row y: left border filled, the cells, right border filled
      rowT == [y \in 0 .. (h - 1) |->
                 IF y >= maxColHeight THEN 0
                 ELSE Cardinality({x \in 0 .. (w - 1) :
                                     filled(x, y) # (IF x = 0 THEN TRUE ELSE filled(x - 1, y))})
                      + (IF ~filled(w - 1, y) THEN 1 ELSE 0)]
      \* column x: floor filled, the cells below the column height, then empty
      colT == [x \in 0 .. (w - 1) |->
                 Cardinality({y \in 0 .. (colHeight[x] - 1) :
                                filled(x, y) # (IF y = 0 THEN TRUE ELSE filled(x, y - 1))})
                 + (IF colHeight[x] > 0 /\ filled(x, colHeight[x] - 1) THEN 1 ELSE 0)]
      holeYs(x) == {y \in 0 .. (colHeight[x] - 1) : ~filled(x, y)}
      holesIn == [x \in 0 .. (w - 1) |-> Cardinality(holeYs(x))]
      depthIn == [x \in 0 .. (w - 1) |->
                    Cardinality({<< y, z >> \in holeYs(x) \X (0 .. (colHeight[x] - 1)) :
                                   z > y /\ filled(x, z)})]
      wells == [x \in 0 .. (w - 1) |->
                  LET leftH == IF x = 0 THEN h ELSE colHeight[x - 1]
                      rightH == IF x = w - 1 THEN h ELSE colHeight[x + 1]
                      depth == (IF leftH < rightH THEN leftH ELSE rightH) - colHeight[x]
                  IN  IF depth > 0 THEN (depth * (depth + 1)) \div 2 ELSE 0]
  IN  [landingHeight2 |-> MinOf(ys) + MaxOf(ys),
       erodedPieceCells |-> linesCleared * pieceCellsInCleared,
       rowTransitions |-> SumUpTo(rowT, h - 1),
       colTransitions |-> SumUpTo(colT, w - 1),
       holes |-> SumUpTo(holesIn, w - 1),
       cumulativeWells |-> SumUpTo(wells, w - 1),
       holeDepth |-> SumUpTo(depthIn, w - 1),
       rowsWithHoles |-> Cardinality({y \in 0 .. (h - 1) :
                                        \E x \in 0 .. (w - 1) : y \in holeYs(x)})]

\* features.ts has a second text of extractFeatures (lines 15-133) that
\* differs in features 3 and 6: a row is scanned from column 0 to the last
\* column with no borders, and an edge column's well is measured against its
\* one inner neighbour.
rowTransitionsNoWalls(board) ==
  LET w == BoardW
      maxColHeight == MaxOf({getColumnHeight(board, x) : x \in 0 .. (w - 1)})
      rowT == [y \in 0 .. (board.totalHeight - 1) |->
                 IF y >= maxColHeight THEN 0
                 ELSE Cardinality({x \in 1 .. (w - 1) :
                                     BoardGet(board, x, y) # BoardGet(board, x - 1, y)})]
  IN  SumUpTo(rowT, board.totalHeight - 1)

\* Wells of the inner columns only: an edge column has none.
cumulativeWellsInteriorOnly(board) ==
  LET w == BoardW
      colHeight == [x \in 0 .. (w - 1) |-> getColumnHeight(board, x)]
      wells == [x \in 0 .. (w - 1) |->
                  LET depth == IF x = 0 \/ x = w - 1 THEN 0
                               ELSE (IF colHeight[x - 1] < colHeight[x + 1]
                                     THEN colHeight[x - 1] ELSE colHeight[x + 1])
                                    - colHeight[x]
                  IN  IF depth > 0 THEN (depth * (depth + 1)) \div 2 ELSE 0]
  IN  SumUpTo(wells, w - 1)

cumulativeWellsInner(board) ==
  LET w == BoardW
      colHeight == [x \in 0 .. (w - 1) |-> getColumnHeight(board, x)]
      wells == [x \in 0 .. (w - 1) |->
                  LET minNeighbor == IF x = 0 THEN colHeight[1]
                                     ELSE IF x = w - 1 THEN colHeight[w - 2]
                                     ELSE IF colHeight[x - 1] < colHeight[x + 1]
                                          THEN colHeight[x - 1] ELSE colHeight[x + 1]
                      depth == minNeighbor - colHeight[x]
                  IN  IF depth > 0 THEN (depth * (depth + 1)) \div 2 ELSE 0]
  IN  SumUpTo(wells, w - 1)

extractFeaturesNoWalls(board, landingCellYs, linesCleared, pieceCellsInCleared) ==
  [extractFeatures(board, landingCellYs, linesCleared, pieceCellsInCleared)
     EXCEPT !.rowTransitions = rowTransitionsNoWalls(board),
            !.cumulativeWells = cumulativeWellsInner(board)]

(***************************************************************************)
(* evaluator.ts: the weights times 100, and evaluate times 200 (the        *)
(* doubled landing height takes its weight once, the others twice).        *)
(***************************************************************************)
BCTS_WEIGHTS == << -1263, 660, -922, -1977, -1308, -1049, -161, -2404 >>

evaluate(features, weights) ==
  weights[1] * features.landingHeight2
  + 2 * (weights[2] * features.erodedPieceCells
         + weights[3] * features.rowTransitions
         + weights[4] * features.colTransitions
         + weights[5] * features.holes
         + weights[6] * features.cumulativeWells
         + weights[7] * features.holeDepth
         + weights[8] * features.rowsWithHoles)

\* evaluator.ts itself declares ten weights and reads ten properties.  A
\* JavaScript number is [nan, v]: reading a property the object does not
\* have gives undefined, and arithmetic on undefined gives NaN, which every
\* further sum keeps.
NaN == [nan |-> TRUE, v |-> 0]
Num(v) == [nan |-> FALSE, v |-> v]
jsTimes(a, b) == IF a.nan \/ b.nan THEN NaN ELSE Num(a.v * b.v)
jsPlus(a, b) == IF a.nan \/ b.nan THEN NaN ELSE Num(a.v + b.v)

EVALUATOR_BCTS_WEIGHTS == << -1263, 660, -922, -1977, -1308, -1049, -161, -2404, 0, 0 >>
NRS_WEIGHTS == << -1800, 660, -922, -1977, -2600, -2000, -800, -3600, -500, -300 >>

\* The property names evaluate reads, in the order of its terms.
EvaluatorReads ==
  << "landingHeight2", "erodedPieceCells", "rowTransitions", "colTransitions", "holes",
     "cumulativeWells", "holeDepth", "rowsWithHoles", "bumpiness", "maxHeight" >>

\* features.<name>, on the scale of evaluate (times 2; landingHeight2 is doubled already).
readFeature(features, name) ==
  IF name \notin DOMAIN features THEN NaN
  ELSE IF name = "landingHeight2" THEN Num(features[name])
  ELSE Num(2 * features[name])

\* weights[i], undefined beyond the end of the array.
readWeight(weights, i) == IF i \in DOMAIN weights THEN Num(weights[i]) ELSE NaN

RECURSIVE EvaluatorSum(_, _, _)
EvaluatorSum(features, weights, i) ==
  IF i > Len(EvaluatorReads) THEN Num(0)
  ELSE jsPlus(jsTimes(readWeight(weights, i), readFeature(features, EvaluatorReads[i])),
              EvaluatorSum(features, weights, i + 1))

evaluatorEvaluate(features, weights) == EvaluatorSum(features, weights, 1)

\* The score a planner gives the afterstate sim.
ScoreOf(sim, weights) ==
  evaluate(extractFeatures(sim.board,
                           [i \in 1 .. Len(sim.landingCells) |-> sim.landingCells[i].y],
                           sim.linesCleared, sim.pieceCellsInCleared),
           weights)

(***************************************************************************)
(* A GameSnapshot is [board, height, rotationSystem, initialDrop,          *)
(* truncateLock, currentPiece, holdPiece (Null or Some), holdUsed,         *)
(* allowHold, preview].                                                    *)
(* A Placement is [piece, rotation, x, y, held].  The optional arguments   *)
(* rotateFn / spawnRotFn / spawnPosFn of a planner are passed together, as *)
(* fns = Null (none passed) or Some(mode).                                 *)
(***************************************************************************)
\* mode.ts classicMode / modernMode: the functions a mode plugs in.
ModeRotate(mode) == IF mode = "nrs" THEN "nrs" ELSE "srs"
ModeSpawnRot(mode, piece) == IF mode = "nrs" THEN NRS_SPAWN_ROTATION(piece) ELSE R0
ModeSpawnPos(mode, piece, width, height) ==
  IF mode = "nrs" THEN getSpawnPositionNRS(piece, width, height)
  ELSE getSpawnPosition(piece, width, height)

Action(p, held) ==
  [piece |-> p.piece, rotation |-> p.rotation, x |-> p.x, y |-> p.y, held |-> held]

(***************************************************************************)
(* greedy.ts: greedySelect.  It takes board.totalHeight - 4 as the visible *)
(* height, the SRS spawn position, and generatePlacements' defaults.       *)
(***************************************************************************)
\* One `for (const p of placements)` loop; best is Null (bestScore = -Infinity)
\* or Some([score, placement]).
\* A value that is used more than once is bound as  x \in {e} : the set
\* constructor evaluates e once and hands x the value, and
\* CHOOSE out \in {body : x \in {e}} : TRUE  is body with x = e.
\* The loop with `score >= bestScore`: among equal scores the last one wins.
RECURSIVE GreedyLoopLast(_, _, _, _, _, _)
GreedyLoopLast(board, weights, placements, i, held, best) ==
  IF i > Len(placements) THEN best
  ELSE CHOOSE out \in
         {IF sim = Null
          THEN GreedyLoopLast(board, weights, placements, i + 1, held, best)
          ELSE CHOOSE res \in
                 {GreedyLoopLast(board, weights, placements, i + 1, held,
                                 IF best = Null \/ score >= best[1].score
                                 THEN Some([score |-> score,
                                            placement |-> Action(placements[i], held)])
                                 ELSE best) :
                    score \in {ScoreOf(sim[1], weights)}} : TRUE :
            sim \in {simulatePlacement(board, placements[i].piece, placements[i].rotation,
                                       placements[i].x, placements[i].y, Null, Null)}} : TRUE

RECURSIVE GreedyLoop(_, _, _, _, _, _)
GreedyLoop(board, weights, placements, i, held, best) ==
  IF i > Len(placements) THEN best
  ELSE CHOOSE out \in
         {IF sim = Null
          THEN GreedyLoop(board, weights, placements, i + 1, held, best)
          ELSE CHOOSE res \in
                 {GreedyLoop(board, weights, placements, i + 1, held,
                             IF best = Null \/ score > best[1].score
                             THEN Some([score |-> score,
                                        placement |-> Action(placements[i], held)])
                             ELSE best) :
                    score \in {ScoreOf(sim[1], weights)}} : TRUE :
            sim \in {simulatePlacement(board, placements[i].piece, placements[i].rotation,
                                       placements[i].x, placements[i].y, Null, Null)}} : TRUE

greedySelect(snapshot, weights) ==
  LET board == snapshot.board
      height == board.totalHeight - 4
      spawn == getSpawnPosition(snapshot.currentPiece, BoardW, height)
      holdTarget == IF snapshot.holdPiece # Null THEN snapshot.holdPiece
                    ELSE IF Len(snapshot.preview) > 0 THEN Some(snapshot.preview[1])
                    ELSE Null
      holdSpawn == getSpawnPosition(holdTarget[1], BoardW, height)
  IN  CHOOSE out \in
        {CHOOSE res \in
           {IF best2 = Null THEN Null ELSE Some(best2[1].placement) :
              best2 \in
                {IF snapshot.allowHold /\ ~snapshot.holdUsed /\ holdTarget # Null
                 THEN CHOOSE r \in
                        {GreedyLoop(board, weights, holdPlacements, 1, TRUE, best1) :
                           holdPlacements \in
                             {generatePlacements(board, holdTarget[1], holdSpawn.x,
                                                 holdSpawn.y, "srs", R0)}} : TRUE
                 ELSE best1}} : TRUE :
           best1 \in
             {CHOOSE r \in
                {GreedyLoop(board, weights, placements, 1, FALSE, Null) :
                   placements \in
                     {generatePlacements(board, snapshot.currentPiece, spawn.x, spawn.y,
                                         "srs", R0)}} : TRUE}} : TRUE

(***************************************************************************)
(* beam.ts: beamSearchSelect, expandPiece, pruneBeam.  A BeamCandidate is  *)
(* [board, score, firstAction, holdPiece, nextPieceIndex]; nextPieceIndex  *)
(* counts from 0 as in the source.                                         *)
(***************************************************************************)
\* The concatenation of the sequences seqs[i], seqs[i + 1], ...
RECURSIVE Flatten(_, _)
Flatten(seqs, i) == IF i > Len(seqs) THEN << >> ELSE seqs[i] \o Flatten(seqs, i + 1)

\* The loop of expandPiece over the placements: what each placement pushes
\* (nothing when the simulation is null), appended to candidates in order.
ExpandLoop(board, placements, height, weights, candidates, firstAction, holdPiece, nextPieceIndex, held, truncAbove) ==
  candidates \o
    Flatten([i \in 1 .. Len(placements) |->
               CHOOSE pushed \in
                 {IF sim = Null THEN << >>
                  ELSE << [board |-> sim[1].board,
                           score |-> ScoreOf(sim[1], weights),
                           firstAction |-> IF firstAction # Null THEN firstAction[1]
                                           ELSE Action(placements[i], held),
                           holdPiece |-> holdPiece,
                           nextPieceIndex |-> nextPieceIndex] >> :
                    sim \in {simulatePlacement(board, placements[i].piece,
                                               placements[i].rotation, placements[i].x,
                                               placements[i].y, Some(height),
                                               truncAbove)}} : TRUE], 1)

expandPiece(board, piece, height, weights, mode, candidates, firstAction, holdPiece, nextPieceIndex, held, initialDrop, truncAbove) ==
  LET spawnRot == ModeSpawnRot(mode, piece)
      rawSpawn == ModeSpawnPos(mode, piece, BoardW, height)
  IN  IF Collides(board, piece, spawnRot, rawSpawn.x, rawSpawn.y) THEN candidates
      ELSE LET spawnY == IF initialDrop
                            /\ ~Collides(board, piece, spawnRot, rawSpawn.x, rawSpawn.y - 1)
                         THEN rawSpawn.y - 1 ELSE rawSpawn.y
           IN  CHOOSE out \in
                 {ExpandLoop(board, placements, height, weights, acc, firstAction,
                             holdPiece, nextPieceIndex, held, truncAbove) :
                    acc \in {candidates},
                    placements \in {generatePlacements(board, piece, rawSpawn.x, spawnY,
                                                       ModeRotate(mode), spawnRot)}} : TRUE

\* An insertion that puts c before the candidates of its own score.
RECURSIVE InsertByScoreUnstable(_, _, _)
InsertByScoreUnstable(sorted, c, i) ==
  IF i > Len(sorted) THEN Append(sorted, c)
  ELSE IF sorted[i].score <= c.score
       THEN SubSeq(sorted, 1, i - 1) \o << c >> \o SubSeq(sorted, i, Len(sorted))
       ELSE InsertByScoreUnstable(sorted, c, i + 1)

\* candidates.sort((a, b) => b.score - a.score): a stable sort, descending.
RECURSIVE InsertByScore(_, _, _)
InsertByScore(sorted, c, i) ==
  IF i > Len(sorted) THEN Append(sorted, c)
  ELSE IF sorted[i].score < c.score
       THEN SubSeq(sorted, 1, i - 1) \o << c >> \o SubSeq(sorted, i, Len(sorted))
       ELSE InsertByScore(sorted, c, i + 1)

RECURSIVE SortByScore(_, _, _)
SortByScore(candidates, i, sorted) ==
  IF i > Len(candidates) THEN sorted
  ELSE SortByScore(candidates, i + 1, InsertByScore(sorted, candidates[i], 1))

\* Array.prototype.slice(0, end): a negative end counts from the end of the
\* array, an end beyond the length stops at the length.
sliceFromStart(arr, end) ==
  LET len == Len(arr)
      k == IF end < 0 THEN (IF len + end > 0 THEN len + end ELSE 0)
           ELSE IF end > len THEN len ELSE end
  IN  SubSeq(arr, 1, k)

pruneBeam(candidates, beamWidth) ==
  IF Len(candidates) <= beamWidth THEN candidates
  ELSE sliceFromStart(SortByScore(candidates, 1, << >>), beamWidth)

\* The body of `for (const c of candidates)` for the candidate c: what the
\* expandPiece calls of options A and B push.
expandCandidate(c, snapshot, weights, mode, height, initialDrop, truncAbove) ==
  LET preview == snapshot.preview
      pieceIdx == c.nextPieceIndex
  IN  IF pieceIdx >= Len(preview) THEN << >>
      ELSE
        LET piece == preview[pieceIdx + 1]
        IN  CHOOSE out \in
              {IF ~snapshot.allowHold THEN nextA
               ELSE IF c.holdPiece # Null
               THEN expandPiece(c.board, c.holdPiece[1], height, weights, mode, nextA,
                                Some(c.firstAction), Some(piece), pieceIdx + 1, TRUE,
                                initialDrop, truncAbove)
               ELSE IF pieceIdx + 1 < Len(preview)
               THEN expandPiece(c.board, preview[pieceIdx + 2], height, weights, mode,
                                nextA, Some(c.firstAction), Some(piece), pieceIdx + 2,
                                TRUE, initialDrop, truncAbove)
               ELSE nextA :
                 nextA \in
                   {expandPiece(c.board, piece, height, weights, mode, << >>,
                                Some(c.firstAction), c.holdPiece, pieceIdx + 1, FALSE,
                                initialDrop, truncAbove)}} : TRUE

\* The loop `for (const c of candidates)` at one level: nextCandidates.
BeamExpandAll(candidates, snapshot, weights, mode, height, initialDrop, truncAbove) ==
  Flatten([i \in 1 .. Len(candidates) |->
             expandCandidate(candidates[i], snapshot, weights, mode, height, initialDrop,
                             truncAbove)], 1)

\* for (let level = 1; level < maxDepth; level++)
RECURSIVE BeamLevels(_, _, _, _, _, _, _, _, _, _)
BeamLevels(level, maxDepth, candidates, snapshot, weights, mode, beamWidth, height, initialDrop, truncAbove) ==
  IF level >= maxDepth THEN candidates
  ELSE CHOOSE out \in
         {IF Len(nextCandidates) = 0 THEN candidates
          ELSE CHOOSE res \in
                 {BeamLevels(level + 1, maxDepth, pruned, snapshot, weights, mode,
                             beamWidth, height, initialDrop, truncAbove) :
                    pruned \in {pruneBeam(nextCandidates, beamWidth)}} : TRUE :
            nextCandidates \in
              {BeamExpandAll(candidates, snapshot, weights, mode, height, initialDrop,
                             truncAbove)}} : TRUE

\* The first candidate of the largest score (best === null || c.score > best.score).
RECURSIVE BestCandidate(_, _, _)
BestCandidate(candidates, i, best) ==
  IF i > Len(candidates) THEN best
  ELSE BestCandidate(candidates, i + 1,
                     IF best = Null \/ candidates[i].score > best[1].score
                     THEN Some(candidates[i]) ELSE best)

\* Level 0 with option B offered whenever the rules allow hold at all.
beamRootHoldAgain(snapshot, weights, mode) ==
  LET board == snapshot.board
      height == snapshot.height
      doInitialDrop == snapshot.initialDrop
      truncAbove == IF snapshot.truncateLock THEN Some(height) ELSE Null
  IN  CHOOSE out \in
        {IF ~snapshot.allowHold THEN candA
         ELSE IF snapshot.holdPiece # Null
         THEN expandPiece(board, snapshot.holdPiece[1], height, weights, mode, candA,
                          Null, Some(snapshot.currentPiece), 0, TRUE, doInitialDrop,
                          truncAbove)
         ELSE IF Len(snapshot.preview) > 0
         THEN expandPiece(board, snapshot.preview[1], height, weights, mode, candA,
                          Null, Some(snapshot.currentPiece), 1, TRUE, doInitialDrop,
                          truncAbove)
         ELSE candA :
           candA \in
             {expandPiece(board, snapshot.currentPiece, height, weights, mode, << >>,
                          Null, snapshot.holdPiece, 0, FALSE, doInitialDrop,
                          truncAbove)}} : TRUE

\* Level 0 of beamSearchSelect: the candidates of option A, then of option B.
beamRoot(snapshot, weights, mode) ==
  LET board == snapshot.board
      height == snapshot.height
      doInitialDrop == snapshot.initialDrop
      truncAbove == IF snapshot.truncateLock THEN Some(height) ELSE Null
  IN  CHOOSE out \in
        {IF ~(snapshot.allowHold /\ ~snapshot.holdUsed) THEN candA
         ELSE IF snapshot.holdPiece # Null
         THEN expandPiece(board, snapshot.holdPiece[1], height, weights, mode, candA,
                          Null, Some(snapshot.currentPiece), 0, TRUE, doInitialDrop,
                          truncAbove)
         ELSE IF Len(snapshot.preview) > 0
         THEN expandPiece(board, snapshot.preview[1], height, weights, mode, candA,
                          Null, Some(snapshot.currentPiece), 1, TRUE, doInitialDrop,
                          truncAbove)
         ELSE candA :
           candA \in
             {expandPiece(board, snapshot.currentPiece, height, weights, mode, << >>,
                          Null, snapshot.holdPiece, 0, FALSE, doInitialDrop,
                          truncAbove)}} : TRUE

\* The candidates that survive all levels, given the level-0 candidates.
beamFinal(snapshot, weights, config, mode, root) ==
  LET height == snapshot.height
      truncAbove == IF snapshot.truncateLock THEN Some(height) ELSE Null
      maxDepth == IF config.depth < Len(snapshot.preview) + 1 THEN config.depth
                  ELSE Len(snapshot.preview) + 1
  IN  CHOOSE out \in
        {BeamLevels(1, maxDepth, pruned, snapshot, weights, mode, config.beamWidth,
                    height, snapshot.initialDrop, truncAbove) :
           pruned \in {pruneBeam(root, config.beamWidth)}} : TRUE

beamSearchSelect(snapshot, weights, config, fns) ==
  LET mode == IF fns # Null THEN fns[1] ELSE "srs"
  IN  CHOOSE out \in
        {IF Len(candB) = 0 THEN Null
         ELSE CHOOSE res \in
                {IF best = Null THEN Null ELSE Some(best[1].firstAction) :
                   best \in
                     {CHOOSE r \in
                        {BestCandidate(final, 1, Null) :
                           final \in {beamFinal(snapshot, weights, config, mode,
                                                candB)}} : TRUE}} : TRUE :
           candB \in {beamRoot(snapshot, weights, mode)}} : TRUE

(***************************************************************************)
(* unnamed/part_018: beamSearch, the planner with a BeamSearchConfig       *)
(* [width, depth].  A BeamNode is [board, score, firstAction (Null or      *)
(* Some), holdPiece, holdUsed, pieceIndex]; nextPieces is the same         *)
(* knownPieces in every node and is passed beside the nodes.  The score    *)
(* adds sim.linesCleared, at the scale of evaluate: 200 a line.            *)
(***************************************************************************)
\* The loop of expandPlacements over the placements, pushing to candidates.
ExpandPlacementsLoop(node, placements, useHold, depth, weights, candidates, nextPieces) ==
  candidates \o
    Flatten([i \in 1 .. Len(placements) |->
               CHOOSE pushed \in
                 {IF sim = Null THEN << >>
                  ELSE << [board |-> sim[1].board,
                           score |-> node.score + ScoreOf(sim[1], weights)
                                       + 200 * sim[1].linesCleared,
                           firstAction |-> IF depth = 0
                                           THEN Some(Action(placements[i], useHold))
                                           ELSE node.firstAction,
                           holdPiece |-> IF useHold
                                         THEN Some(nextPieces[node.pieceIndex + 1])
                                         ELSE node.holdPiece,
                           holdUsed |-> FALSE,
                           pieceIndex |-> IF useHold /\ node.holdPiece = Null
                                          THEN node.pieceIndex + 2
                                          ELSE node.pieceIndex + 1] >> :
                    sim \in {simulatePlacement(node.board, placements[i].piece,
                                               placements[i].rotation, placements[i].x,
                                               placements[i].y, Null, Null)}} : TRUE], 1)

expandPlacements(node, piece, useHold, depth, visibleHeight, weights, candidates, nextPieces) ==
  LET spawnPos == getSpawnPosition(piece, BoardW, visibleHeight)
  IN  CHOOSE out \in
        {ExpandPlacementsLoop(node, placements, useHold, depth, weights, acc,
                              nextPieces) :
           acc \in {candidates},
           placements \in {generatePlacements(node.board, piece, spawnPos.x, spawnPos.y,
                                              "srs", R0)}} : TRUE

\* The body of `for (const node of beam)` at depth d for one node: what its
\* expandPlacements calls push.
expandNode(node, d, allowHold, visibleHeight, weights, nextPieces) ==
  LET \* node.holdPiece ?? node.nextPieces[node.pieceIndex + 1]
      holdTarget == IF node.holdPiece # Null THEN node.holdPiece
                    ELSE IF node.pieceIndex + 2 <= Len(nextPieces)
                    THEN Some(nextPieces[node.pieceIndex + 2])
                    ELSE Null
  IN  IF node.pieceIndex >= Len(nextPieces) THEN << >>
      ELSE CHOOSE out \in
             {IF allowHold /\ ~node.holdUsed /\ holdTarget # Null
              THEN expandPlacements(node, holdTarget[1], TRUE, d, visibleHeight, weights,
                                    plain, nextPieces)
              ELSE plain :
                plain \in
                  {expandPlacements(node, nextPieces[node.pieceIndex + 1], FALSE, d,
                                    visibleHeight, weights, << >>, nextPieces)}} : TRUE

\* The loop `for (const node of beam)` at depth d: candidates.
BeamNodesLoop(beam, d, allowHold, visibleHeight, weights, nextPieces) ==
  Flatten([i \in 1 .. Len(beam) |->
             expandNode(beam[i], d, allowHold, visibleHeight, weights, nextPieces)], 1)

\* for (let d = 0; d < effectiveDepth; d++)
RECURSIVE BeamDepthLoop(_, _, _, _, _, _, _, _)
BeamDepthLoop(beam, d, effectiveDepth, allowHold, visibleHeight, weights, width, nextPieces) ==
  IF d >= effectiveDepth THEN beam
  ELSE CHOOSE out \in
         {IF Len(candidates) = 0 THEN beam
          ELSE CHOOSE res \in
                 {BeamDepthLoop(kept, d + 1, effectiveDepth, allowHold, visibleHeight,
                                weights, width, nextPieces) :
                    kept \in {sliceFromStart(SortByScore(candidates, 1, << >>),
                                             width)}} : TRUE :
            candidates \in {BeamNodesLoop(beam, d, allowHold, visibleHeight, weights,
                                          nextPieces)}} : TRUE

beamSearch(snapshot, weights, config) ==
  LET board == snapshot.board
      visibleHeight == board.totalHeight - 4
      knownPieces == << snapshot.currentPiece >> \o snapshot.preview
      effectiveDepth == IF config.depth < Len(knownPieces) THEN config.depth
                        ELSE Len(knownPieces)
      root == [board |-> board, score |-> 0, firstAction |-> Null,
               holdPiece |-> snapshot.holdPiece, holdUsed |-> snapshot.holdUsed,
               pieceIndex |-> 0]
  IN  IF effectiveDepth <= 0 THEN Null
      ELSE CHOOSE out \in
             {IF Len(beam) = 0 THEN Null ELSE beam[1].firstAction :
                beam \in {BeamDepthLoop(<< root >>, 0, effectiveDepth, snapshot.allowHold,
                                        visibleHeight, weights, config.width,
                                        knownPieces)}} : TRUE

(***************************************************************************)
(* expectimax.ts: expectimaxSelect, dominancePrune, chanceNode, maxNode.   *)
(* Values are kept exactly: a leaf score is 200 times the source's, and    *)
(* each chance level multiplies by 21, since CVaR(0.30) of seven values is *)
(* (v0 + v1 + 0.1 * v2) / 2.1 = (10 * v0 + 10 * v1 + v2) / 21.  The memo   *)
(* of maxNode caches the value the recursion computes and is left out.     *)
(***************************************************************************)
ALL_PIECES == << PieceI, PieceO, PieceT, PieceS, PieceZ, PieceJ, PieceL >>

RECURSIVE Pow21(_)
Pow21(n) == IF n <= 0 THEN 1 ELSE 21 * Pow21(n - 1)

\* -1e9 at the scale of a max node of the given depth.
Terminal(depth) == -(1000000000 * 200) * Pow21(depth - 1)

\* values.sort((a, b) => a - b)
RECURSIVE InsertAscending(_, _, _)
InsertAscending(sorted, v, i) ==
  IF i > Len(sorted) THEN Append(sorted, v)
  ELSE IF v < sorted[i]
       THEN SubSeq(sorted, 1, i - 1) \o << v >> \o SubSeq(sorted, i, Len(sorted))
       ELSE InsertAscending(sorted, v, i + 1)

RECURSIVE SortAscending(_, _, _)
SortAscending(values, i, sorted) ==
  IF i > Len(values) THEN sorted
  ELSE SortAscending(values, i + 1, InsertAscending(sorted, values[i], 1))

\* 21 times the CVaR of the seven values: k = 2.1, fullCount = 2, fractional = 0.1.
CVaR21(values) ==
  CHOOSE out \in
    {10 * sorted[1] + 10 * sorted[2] + sorted[3] :
       sorted \in {SortAscending(values, 1, << >>)}} : TRUE

RECURSIVE maxNode(_, _, _, _, _, _, _, _, _)
RECURSIVE MaxLoop(_, _, _, _, _, _, _, _, _, _, _)

chanceNode(board, currentPiece, depth, weights, height, mode, initialDrop, truncAbove) ==
  CVaR21([i \in 1 .. PIECE_COUNT |->
            maxNode(board, currentPiece, ALL_PIECES[i], depth, weights, height, mode,
                    initialDrop, truncAbove)])

\* The loop of maxNode over the placements; best is Null (-Infinity) or Some(value).
MaxLoop(board, placements, i, nextPiece, depth, weights, height, mode, initialDrop, truncAbove, best) ==
  IF i > Len(placements) THEN best
  ELSE CHOOSE out \in
         {IF sim = Null
          THEN MaxLoop(board, placements, i + 1, nextPiece, depth, weights, height, mode,
                       initialDrop, truncAbove, best)
          ELSE CHOOSE res \in
                 {MaxLoop(board, placements, i + 1, nextPiece, depth, weights, height,
                          mode, initialDrop, truncAbove,
                          IF best = Null \/ value > best[1] THEN Some(value) ELSE best) :
                    value \in
                      {IF depth <= 1 THEN ScoreOf(sim[1], weights)
                       ELSE chanceNode(sim[1].board, nextPiece, depth - 1, weights,
                                       height, mode, initialDrop, truncAbove)}} : TRUE :
            sim \in {simulatePlacement(board, placements[i].piece, placements[i].rotation,
                                       placements[i].x, placements[i].y, Some(height),
                                       truncAbove)}} : TRUE

maxNode(board, currentPiece, nextPiece, depth, weights, height, mode, initialDrop, truncAbove) ==
  LET spawnRot == ModeSpawnRot(mode, currentPiece)
      rawSpawn == ModeSpawnPos(mode, currentPiece, BoardW, height)
  IN  IF Collides(board, currentPiece, spawnRot, rawSpawn.x, rawSpawn.y)
      THEN Terminal(depth)
      ELSE
        LET spawnY == IF initialDrop
                         /\ ~Collides(board, currentPiece, spawnRot, rawSpawn.x,
                                      rawSpawn.y - 1)
                      THEN rawSpawn.y - 1 ELSE rawSpawn.y
        IN  CHOOSE out \in
              {IF best = Null THEN Terminal(depth) ELSE best[1] :
                 best \in
                   {CHOOSE res \in
                      {MaxLoop(board, placements, 1, nextPiece, depth, weights, height,
                               mode, initialDrop, truncAbove, Null) :
                         placements \in
                           {generatePlacements(board, currentPiece, rawSpawn.x, spawnY,
                                               ModeRotate(mode), spawnRot)}} : TRUE}} : TRUE

\* features.maxHeight, which expectimaxSelect reads: the FeatureVector of the
\* sources at hand has no such field; it is taken to be the height of the
\* tallest column of the afterstate.
maxHeightFeature(board) == getMaxHeight(board)

\* Phase 1 of expectimaxSelect: the AfterState of every placement that simulates.
RECURSIVE AfterStates(_, _, _, _, _, _, _)
AfterStates(board, placements, i, height, truncAbove, weights, candidates) ==
  IF i > Len(placements) THEN candidates
  ELSE CHOOSE out \in
         {AfterStates(board, placements, i + 1, height, truncAbove, weights, grown) :
            grown \in
              {CHOOSE res \in
                 {IF sim = Null THEN acc
                  ELSE CHOOSE c \in
                         {Append(acc,
                                 [placement |-> Action(placements[i], FALSE),
                                  board |-> sim[1].board,
                                  leafScore |-> evaluate(features, weights),
                                  holes |-> features.holes,
                                  maxH |-> maxHeightFeature(sim[1].board)]) :
                            features \in
                              {extractFeatures(sim[1].board,
                                               [k \in 1 .. Len(sim[1].landingCells) |->
                                                  sim[1].landingCells[k].y],
                                               sim[1].linesCleared,
                                               sim[1].pieceCellsInCleared)}} : TRUE :
                    acc \in {candidates},
                    sim \in {simulatePlacement(board, placements[i].piece,
                                               placements[i].rotation, placements[i].x,
                                               placements[i].y, Some(height),
                                               truncAbove)}} : TRUE}} : TRUE

\* candidates.sort((a, b) => b.leafScore - a.leafScore): stable, descending.
RECURSIVE InsertByLeaf(_, _, _)
InsertByLeaf(sorted, c, i) ==
  IF i > Len(sorted) THEN Append(sorted, c)
  ELSE IF sorted[i].leafScore < c.leafScore
       THEN SubSeq(sorted, 1, i - 1) \o << c >> \o SubSeq(sorted, i, Len(sorted))
       ELSE InsertByLeaf(sorted, c, i + 1)

RECURSIVE SortByLeaf(_, _, _)
SortByLeaf(candidates, i, sorted) ==
  IF i > Len(candidates) THEN sorted
  ELSE SortByLeaf(candidates, i + 1, InsertByLeaf(sorted, candidates[i], 1))

RECURSIVE KeepLoop(_, _, _)
KeepLoop(sorted, i, kept) ==
  IF i > Len(sorted) THEN kept
  ELSE CHOOSE out \in
         {KeepLoop(sorted, i + 1,
                   IF \E j \in 1 .. Len(acc) :
                        /\ acc[j].holes <= sorted[i].holes
                        /\ acc[j].maxH <= sorted[i].maxH
                        /\ acc[j].leafScore >= sorted[i].leafScore
                   THEN acc ELSE Append(acc, sorted[i])) :
            acc \in {kept}} : TRUE

dominancePrune(candidates) == KeepLoop(SortByLeaf(candidates, 1, << >>), 1, << >>)

\* Phase 2: the first candidate of the largest leaf score.
RECURSIVE BestLeaf(_, _, _)
BestLeaf(candidates, i, best) ==
  IF i > Len(candidates) THEN best
  ELSE BestLeaf(candidates, i + 1,
                IF best = Null \/ candidates[i].leafScore > best[1].leafScore
                THEN Some(candidates[i]) ELSE best)

\* Phase 4: the first candidate of the largest chance-node value.
RECURSIVE DeepLoop(_, _, _, _, _, _, _, _, _, _)
DeepLoop(candidates, i, nextPiece, depth, weights, height, mode, initialDrop, truncAbove, best) ==
  IF i > Len(candidates) THEN best
  ELSE CHOOSE out \in
         {DeepLoop(candidates, i + 1, nextPiece, depth, weights, height, mode,
                   initialDrop, truncAbove,
                   IF best = Null \/ value > best[1].value
                   THEN Some([value |-> value, placement |-> candidates[i].placement])
                   ELSE best) :
            value \in {chanceNode(candidates[i].board, nextPiece, depth - 1, weights,
                                  height, mode, initialDrop, truncAbove)}} : TRUE

\* Phases 2 and 3 of expectimaxSelect: the candidates the choice is made
\* among; nextPiece is Null or Some(preview[0]).
searchedCandidates(config, nextPiece, candidates) ==
  IF config.depth <= 1 \/ nextPiece = Null THEN candidates
  ELSE dominancePrune(candidates)

\* Phases 2 to 4 of expectimaxSelect, given the candidates of phase 1.
expectimaxPick(snapshot, weights, config, mode, candidates) ==
  LET height == snapshot.height
      truncAbove == IF snapshot.truncateLock THEN Some(height) ELSE Null
  IN  IF config.depth <= 1 \/ Len(snapshot.preview) = 0
      THEN Some(BestLeaf(candidates, 1, Null)[1].placement)
      ELSE CHOOSE out \in
             {Some(DeepLoop(pruned, 1, snapshot.preview[1], config.depth, weights, height,
                            mode, snapshot.initialDrop, truncAbove, Null)[1].placement) :
                pruned \in {dominancePrune(candidates)}} : TRUE

expectimaxSelect(snapshot, weights, config, fns) ==
  LET board == snapshot.board
      height == snapshot.height
      currentPiece == snapshot.currentPiece
      doInitialDrop == snapshot.initialDrop
      truncAbove == IF snapshot.truncateLock THEN Some(height) ELSE Null
      mode == IF fns # Null THEN fns[1] ELSE snapshot.rotationSystem
      spawnRot == ModeSpawnRot(mode, currentPiece)
      rawSpawn == ModeSpawnPos(mode, currentPiece, BoardW, height)
  IN  IF Collides(board, currentPiece, spawnRot, rawSpawn.x, rawSpawn.y) THEN Null
      ELSE
        LET spawnY == IF doInitialDrop
                         /\ ~Collides(board, currentPiece, spawnRot, rawSpawn.x,
                                      rawSpawn.y - 1)
                      THEN rawSpawn.y - 1 ELSE rawSpawn.y
        IN  CHOOSE out \in
              {IF Len(placements) = 0 THEN Null
               ELSE CHOOSE res \in
                      {IF Len(candidates) = 0 THEN Null
                       ELSE expectimaxPick(snapshot, weights, config, mode, candidates) :
                         candidates \in
                           {AfterStates(board, placements, 1, height, truncAbove, weights,
                                        << >>)}} : TRUE :
                 placements \in
                   {generatePlacements(board, currentPiece, rawSpawn.x, spawnY,
                                       ModeRotate(mode), spawnRot)}} : TRUE

(***************************************************************************)
(* game.ts: the Game.  A Game is [config, board, currentPiece,             *)
(* currentRotation, currentX, currentY, holdPiece, holdUsed, linesCleared, *)
(* piecesPlaced, gameOver, buffer]; buffer is the randomizer's buffer.     *)
(* config.width / height / bufferRows are BoardW / VisibleH / BufferRows.  *)
(***************************************************************************)
\* mode.ts classicMode / modernMode, the fields Game reads.
classicMode ==
  [rotationSystem |-> "nrs", previewCount |-> 1, allowHold |-> FALSE,
   initialDrop |-> FALSE, truncateLock |-> TRUE]
modernMode ==
  [rotationSystem |-> "srs", previewCount |-> ModernPreview, allowHold |-> TRUE,
   initialDrop |-> TRUE, truncateLock |-> FALSE]
GameConfigs == {classicMode, modernMode}

\* UniformRandomizer.next(): ensureBuffer(1), then shift.  draw is the piece
\* generate() yields when the buffer is empty.
randomizerNext(buffer, draw) ==
  IF Len(buffer) = 0 THEN [piece |-> draw, buffer |-> << >>]
  ELSE [piece |-> Head(buffer), buffer |-> Tail(buffer)]

\* UniformRandomizer.peek(count): ensureBuffer(count) pushes `fill`.
randomizerPeek(buffer, count, fill) ==
  [pieces |-> SubSeq(buffer \o fill, 1, count), buffer |-> buffer \o fill]

\* A spawn() without the block-out check.
spawnUnchecked(g, draw) ==
  LET r == randomizerNext(g.buffer, draw)
      rot == ModeSpawnRot(g.config.rotationSystem, r.piece)
      pos == ModeSpawnPos(g.config.rotationSystem, r.piece, BoardW, VisibleH)
      g1 == [g EXCEPT !.buffer = r.buffer, !.currentPiece = r.piece,
                      !.currentRotation = rot, !.currentX = pos.x, !.currentY = pos.y]
  IN  IF g.config.initialDrop /\ ~Collides(g.board, r.piece, rot, pos.x, pos.y - 1)
      THEN [g1 EXCEPT !.currentY = pos.y - 1]
      ELSE g1

spawn(g, draw) ==
  LET r == randomizerNext(g.buffer, draw)
      rot == ModeSpawnRot(g.config.rotationSystem, r.piece)
      pos == ModeSpawnPos(g.config.rotationSystem, r.piece, BoardW, VisibleH)
      g1 == [g EXCEPT !.buffer = r.buffer, !.currentPiece = r.piece,
                      !.currentRotation = rot, !.currentX = pos.x, !.currentY = pos.y]
  IN  IF Collides(g.board, r.piece, rot, pos.x, pos.y)
      THEN [g1 EXCEPT !.gameOver = TRUE]
      ELSE IF g.config.initialDrop /\ ~Collides(g.board, r.piece, rot, pos.x, pos.y - 1)
      THEN [g1 EXCEPT !.currentY = pos.y - 1]
      ELSE g1

\* new Game(config): an empty board, then spawn().
NewGame(config, draw) ==
  spawn([config |-> config, board |-> NewBoard(VisibleH + BufferRows),
         currentPiece |-> PieceI, currentRotation |-> R0, currentX |-> 0, currentY |-> 0,
         holdPiece |-> Null, holdUsed |-> FALSE, linesCleared |-> 0, piecesPlaced |-> 0,
         gameOver |-> FALSE, buffer |-> << >>], draw)

\* A hold that marks the hold as used and leaves the pieces where they are.
holdKeepsCurrent(g, draw) ==
  IF g.gameOver \/ g.holdUsed \/ ~g.config.allowHold THEN [game |-> g, ok |-> FALSE]
  ELSE [game |-> [g EXCEPT !.holdUsed = TRUE], ok |-> TRUE]

\* A hold() that does not mark the hold as used.
holdUnmarked(g, draw) ==
  IF g.gameOver \/ g.holdUsed \/ ~g.config.allowHold THEN [game |-> g, ok |-> FALSE]
  ELSE
    IF g.holdPiece = Null
    THEN [game |-> spawn([g EXCEPT !.holdPiece = Some(g.currentPiece)], draw), ok |-> TRUE]
    ELSE
      LET piece == g.holdPiece[1]
          rot == ModeSpawnRot(g.config.rotationSystem, piece)
          pos == ModeSpawnPos(g.config.rotationSystem, piece, BoardW, VisibleH)
          g2 == [g EXCEPT !.holdPiece = Some(g.currentPiece), !.currentPiece = piece,
                          !.currentRotation = rot, !.currentX = pos.x, !.currentY = pos.y]
      IN  IF Collides(g.board, piece, rot, pos.x, pos.y)
          THEN [game |-> [g2 EXCEPT !.gameOver = TRUE], ok |-> FALSE]
          ELSE IF g.config.initialDrop /\ ~Collides(g.board, piece, rot, pos.x, pos.y - 1)
          THEN [game |-> [g2 EXCEPT !.currentY = pos.y - 1], ok |-> TRUE]
          ELSE [game |-> g2, ok |-> TRUE]

\* hold(): returns [game, ok].
hold(g, draw) ==
  IF g.gameOver \/ g.holdUsed \/ ~g.config.allowHold THEN [game |-> g, ok |-> FALSE]
  ELSE
    LET g1 == [g EXCEPT !.holdUsed = TRUE]
    IN  IF g.holdPiece = Null
        THEN [game |-> spawn([g1 EXCEPT !.holdPiece = Some(g.currentPiece)], draw),
              ok |-> TRUE]
        ELSE
          LET piece == g.holdPiece[1]
              rot == ModeSpawnRot(g.config.rotationSystem, piece)
              pos == ModeSpawnPos(g.config.rotationSystem, piece, BoardW, VisibleH)
              g2 == [g1 EXCEPT !.holdPiece = Some(g.currentPiece), !.currentPiece = piece,
                               !.currentRotation = rot, !.currentX = pos.x,
                               !.currentY = pos.y]
          IN  IF Collides(g.board, piece, rot, pos.x, pos.y)
              THEN [game |-> [g2 EXCEPT !.gameOver = TRUE], ok |-> FALSE]
              ELSE IF g.config.initialDrop
                      /\ ~Collides(g.board, piece, rot, pos.x, pos.y - 1)
              THEN [game |-> [g2 EXCEPT !.currentY = pos.y - 1], ok |-> TRUE]
              ELSE [game |-> g2, ok |-> TRUE]

\* lock(): returns [game, result], with what was locked and whether the lock
\* ended in lock-out.
lock(g, draw) ==
  LET locked == [piece |-> g.currentPiece, rotation |-> g.currentRotation,
                 x |-> g.currentX, y |-> g.currentY]
  IN  CHOOSE out \in
        {IF ~g.config.truncateLock
            /\ \A i \in 1 .. Len(pl.placed) : pl.placed[i].y >= VisibleH
         THEN [game |-> [g EXCEPT !.board = pl.board, !.gameOver = TRUE,
                                  !.piecesPlaced = @ + 1],
               result |-> [linesCleared |-> 0, pieceCellsInCleared |-> 0,
                           gameOver |-> TRUE],
               lockedOut |-> TRUE, locked |-> locked]
         ELSE CHOOSE res \in
                {CHOOSE r \in
                   {[game |-> g2,
                     result |-> [linesCleared |-> cl.count,
                                 pieceCellsInCleared |->
                                   IF cl.count > 0 THEN CountIn(pl.placed, cl.rows) ELSE 0,
                                 gameOver |-> g2.gameOver],
                     lockedOut |-> FALSE, locked |-> locked] :
                      g2 \in {spawn([g EXCEPT !.board = cl.board,
                                              !.linesCleared = @ + cl.count,
                                              !.piecesPlaced = @ + 1,
                                              !.holdUsed = FALSE], draw)}} : TRUE :
                   cl \in {clearLines(pl.board)}} : TRUE :
           pl \in {placePiece(g.board, g.currentPiece, g.currentRotation, g.currentX,
                              g.currentY,
                              IF g.config.truncateLock THEN Some(VisibleH) ELSE Null)}} : TRUE

\* getPreview() and snapshot(), on a game whose buffer peek has filled.
snapshot(g) ==
  [board |-> clone(g.board), height |-> VisibleH,
   rotationSystem |-> g.config.rotationSystem, initialDrop |-> g.config.initialDrop,
   truncateLock |-> g.config.truncateLock, currentPiece |-> g.currentPiece,
   holdPiece |-> g.holdPiece, holdUsed |-> g.holdUsed, allowHold |-> g.config.allowHold,
   preview |-> SubSeq(g.buffer, 1, g.config.previewCount)]

\* An applyPlacement that locks without the collision check.
applyPlacementUnchecked(g, placement, draw1, draw2) ==
  LET l == lock([g EXCEPT !.currentRotation = placement.rotation, !.currentX = placement.x,
                          !.currentY = placement.y], draw2)
  IN  [game |-> l.game, result |-> l.result, collided |-> FALSE, lockedOut |-> l.lockedOut,
       locked |-> Some(l.locked), overAfterHold |-> FALSE]

\* applyPlacement(placement): returns [game, result, collided, lockedOut,
\* locked, overAfterHold]; locked is Null when the call returned before
\* lock(), overAfterHold is this.gameOver as the call to hold() left it.
applyPlacement(g, placement, draw1, draw2) ==
  IF g.gameOver
  THEN [game |-> g,
        result |-> [linesCleared |-> 0, pieceCellsInCleared |-> 0, gameOver |-> TRUE],
        collided |-> FALSE, lockedOut |-> FALSE, locked |-> Null, overAfterHold |-> FALSE]
  ELSE
    CHOOSE out \in
      {IF ~h.ok
       THEN [game |-> h.game,
             result |-> [linesCleared |-> 0, pieceCellsInCleared |-> 0,
                         gameOver |-> h.game.gameOver],
             collided |-> FALSE, lockedOut |-> FALSE, locked |-> Null,
             overAfterHold |-> h.game.gameOver]
       ELSE
         LET g1 == [h.game EXCEPT !.currentRotation = placement.rotation,
                                  !.currentX = placement.x, !.currentY = placement.y]
         IN  IF Collides(h.game.board, h.game.currentPiece, placement.rotation,
                         placement.x, placement.y)
             THEN [game |-> [g1 EXCEPT !.gameOver = TRUE],
                   result |-> [linesCleared |-> 0, pieceCellsInCleared |-> 0,
                               gameOver |-> TRUE],
                   collided |-> TRUE, lockedOut |-> FALSE, locked |-> Null,
                   overAfterHold |-> h.game.gameOver]
             ELSE CHOOSE res \in
                    {[game |-> l.game, result |-> l.result, collided |-> FALSE,
                      lockedOut |-> l.lockedOut, locked |-> Some(l.locked),
                      overAfterHold |-> h.game.gameOver] :
                       l \in {lock(g1, draw2)}} : TRUE :
         h \in {IF placement.held THEN hold(g, draw1)
                ELSE [game |-> g, ok |-> TRUE]}} : TRUE

(***************************************************************************)
(* randomizer.ts.  A 32-bit word is kept as its four bytes, lowest first,  *)
(* so that Math.imul, ^, | and >>> are computed bit for bit; the signed    *)
(* and the unsigned reading of a word have the same bytes.                 *)
(***************************************************************************)
Byte == 2 ^ 8

W32OfNat(n) == << n % Byte, (n \div Byte) % Byte, (n \div (Byte * Byte)) % Byte, (n \div (Byte * Byte * Byte)) % Byte >>

\* The low 32 bits of the number whose byte columns hold the sums cols.
W32Norm(cols) ==
  LET c1 == cols[1]
      c2 == cols[2] + (c1 \div Byte)
      c3 == cols[3] + (c2 \div Byte)
      c4 == cols[4] + (c3 \div Byte)
  IN  << c1 % Byte, c2 % Byte, c3 % Byte, c4 % Byte >>

W32Add(a, b) == W32Norm([k \in 1 .. 4 |-> a[k] + b[k]])

\* Math.imul(a, b)
imul(a, b) ==
  W32Norm(<< a[1] * b[1],
             a[1] * b[2] + a[2] * b[1],
             a[1] * b[3] + a[2] * b[2] + a[3] * b[1],
             a[1] * b[4] + a[2] * b[3] + a[3] * b[2] + a[4] * b[1] >>)

RECURSIVE XorBits(_, _, _)
XorBits(x, y, n) ==
  IF n = 0 THEN 0
  ELSE ((x + y) % 2) + 2 * XorBits(x \div 2, y \div 2, n - 1)

RECURSIVE OrBits(_, _, _)
OrBits(x, y, n) ==
  IF n = 0 THEN 0
  ELSE (IF x % 2 = 1 \/ y % 2 = 1 THEN 1 ELSE 0) + 2 * OrBits(x \div 2, y \div 2, n - 1)

\* a ^ b and a | b
W32Xor(a, b) == [k \in 1 .. 4 |-> XorBits(a[k], b[k], 8)]
W32Or(a, b) == [k \in 1 .. 4 |-> OrBits(a[k], b[k], 8)]

\* a >>> n
W32Shr(a, n) ==
  LET q == n \div 8
      r == n % 8
      at(k) == IF k <= 4 THEN a[k] ELSE 0
  IN  [k \in 1 .. 4 |-> (at(k + q) \div (2 ^ r)) + (at(k + q + 1) % (2 ^ r)) * (2 ^ (8 - r))]

\* 0x6d2b79f5
PrngIncrement == << 245, 121, 43, 109 >>

\* new Prng(seed): state = seed | 0
Prng(seed) == [state |-> W32OfNat(seed)]

\* Prng.next(): the generator after the call, and the numerator n of the
\* returned n / 4294967296.
PrngNext(rng) ==
  LET state == W32Add(rng.state, PrngIncrement)
  IN  CHOOSE out \in
        {[rng |-> [state |-> state], value |-> W32Xor(t2, W32Shr(t2, 14))] :
           t2 \in {W32Xor(W32Add(t1, imul(W32Xor(t1, W32Shr(t1, 7)),
                                         W32Or(W32OfNat(61), t1))), t1) :
                     t1 \in {imul(W32Xor(state, W32Shr(state, 15)),
                                  W32Or(W32OfNat(1), state))}}} : TRUE

\* Math.floor(u * k) for u = n / 2^32 and a small integer k: n / 2^32 and
\* its product with k have at most 35 significant bits, so both are exact
\* doubles and the floor is that of the exact quotient n * k / 2^32.
FloorTimes(n, k) ==
  LET c1 == n[1] * k
      c2 == n[2] * k + (c1 \div Byte)
      c3 == n[3] * k + (c2 \div Byte)
      c4 == n[4] * k + (c3 \div Byte)
  IN  c4 \div Byte

\* createRandomizer(type, seed): a randomizer is [type, seed, rng, buffer].
createRandomizer(type, seed) == [type |-> type, seed |-> seed, rng |-> Prng(seed), buffer |-> << >>]

\* UniformRandomizer.generate
generate(rng) ==
  CHOOSE out \in {[rng |-> o.rng, piece |-> FloorTimes(o.value, PIECE_COUNT)] :
                    o \in {PrngNext(rng)}} : TRUE

\* bag[i] = bag[j] alone
CopyAt(bag, i, j) == [bag EXCEPT ![i + 1] = bag[j + 1]]

\* [bag[i], bag[j]] = [bag[j], bag[i]] (indices from 0)
SwapAt(bag, i, j) == [bag EXCEPT ![i + 1] = bag[j + 1], ![j + 1] = bag[i + 1]]

\* for (let i = bag.length - 1; i > 0; i--)
RECURSIVE ShuffleLoop(_, _, _)
ShuffleLoop(bag, i, rng) ==
  IF i <= 0 THEN [rng |-> rng, bag |-> bag]
  ELSE CHOOSE out \in
         {ShuffleLoop(SwapAt(bag, i, FloorTimes(o.value, i + 1)), i - 1, o.rng) :
            o \in {PrngNext(rng)}} : TRUE

\* BagRandomizer.generateBag
generateBag(rng) ==
  ShuffleLoop(<< PieceI, PieceO, PieceT, PieceS, PieceZ, PieceJ, PieceL >>, PIECE_COUNT - 1, rng)

\* ensureBuffer of the two classes: while (this.buffer.length < count)
RECURSIVE ensureBuffer(_, _)
ensureBuffer(r, count) ==
  IF Len(r.buffer) >= count THEN r
  ELSE IF r.type = "bag7"
  THEN CHOOSE out \in
         {ensureBuffer([r EXCEPT !.rng = g.rng, !.buffer = r.buffer \o g.bag], count) :
            g \in {generateBag(r.rng)}} : TRUE
  ELSE CHOOSE out \in
         {ensureBuffer([r EXCEPT !.rng = g.rng, !.buffer = Append(r.buffer, g.piece)],
                       count) :
            g \in {generate(r.rng)}} : TRUE

\* next(): the randomizer after the call and the piece returned.
next(r) ==
  CHOOSE out \in {[rnd |-> [b EXCEPT !.buffer = Tail(b.buffer)], piece |-> Head(b.buffer)] :
                    b \in {ensureBuffer(r, 1)}} : TRUE

\* peek(count): the randomizer after the call and the pieces returned.
peek(r, count) ==
  CHOOSE out \in {[rnd |-> b, pieces |-> SubSeq(b.buffer, 1, count)] :
                    b \in {ensureBuffer(r, count)}} : TRUE

\* A clone that starts with an empty buffer.
cloneRandomizerUnbuffered(r) == [r EXCEPT !.buffer = << >>]

\* clone(): a new randomizer of the same seed, with a copy of the generator
\* and of the buffer.
cloneRandomizer(r) == [createRandomizer(r.type, r.seed) EXCEPT !.rng = [state |-> r.rng.state], !.buffer = r.buffer]

(***************************************************************************)
(* AnimationPlanner (part_008): planAnimation and its BFS over             *)
(* (x, y, rotation).  A keyframe is [type, piece, rotation, x, y, input],  *)
(* input "null" standing for null; rotateFn and spawnPosFn are given by    *)
(* the name of the rotation system they belong to.                         *)
(***************************************************************************)
encodeKey(x, y, rot) == ((y + 4) * 30 + (x + 4)) * 4 + rot

BfsStep(px, py, rotation, move) == [x |-> px, y |-> py, rot |-> rotation, move |-> move]

\* The neighbors of a node, in the order they are pushed: left, right, soft
\* drop, rotate CW, rotate CCW.
AnimNeighbors(b, piece, rotateFn, node) ==
  (IF ~Collides(b, piece, node.rot, node.x - 1, node.y)
   THEN << BfsStep(node.x - 1, node.y, node.rot, "left") >> ELSE << >>)
  \o (IF ~Collides(b, piece, node.rot, node.x + 1, node.y)
      THEN << BfsStep(node.x + 1, node.y, node.rot, "right") >> ELSE << >>)
  \o (IF ~Collides(b, piece, node.rot, node.x, node.y - 1)
      THEN << BfsStep(node.x, node.y - 1, node.rot, "drop") >> ELSE << >>)
  \o (CHOOSE out \in
        {IF cwResult # Null
         THEN << BfsStep(cwResult[1].x, cwResult[1].y, cwResult[1].rotation, "rotateCW") >>
         ELSE << >> :
           cwResult \in {CallRotate(rotateFn, b, piece, node.rot, 1, node.x, node.y)}} : TRUE)
  \o (CHOOSE out \in
        {IF ccwResult # Null
         THEN << BfsStep(ccwResult[1].x, ccwResult[1].y, ccwResult[1].rotation, "rotateCCW") >>
         ELSE << >> :
           ccwResult \in {CallRotate(rotateFn, b, piece, node.rot, -1, node.x, node.y)}} : TRUE)

\* reconstructPath: the steps from the start to the target; the loop pushes
\* them from the target backwards and reverses.
RECURSIVE ReconstructLoop(_, _, _, _)
ReconstructLoop(parent, startKey, current, path) ==
  IF current = startKey \/ current \notin DOMAIN parent THEN path
  ELSE ReconstructLoop(parent, startKey, parent[current].parentKey,
                       << parent[current].step >> \o path)

reconstructPath(parent, startKey, targetKey) == ReconstructLoop(parent, startKey, targetKey, << >>)

\* for (const { n, step } of neighbors); bfs = [queue, visited, parent, found]
RECURSIVE NeighborLoop(_, _, _, _, _)
NeighborLoop(neighbors, i, nodeKey, targetKey, bfs) ==
  IF i > Len(neighbors) THEN bfs
  ELSE
    LET step == neighbors[i]
        nk == encodeKey(step.x, step.y, step.rot)
    IN  IF nk \in bfs.visited THEN NeighborLoop(neighbors, i + 1, nodeKey, targetKey, bfs)
        ELSE IF nk = targetKey
        THEN [bfs EXCEPT !.visited = @ \cup {nk},
                         !.parent = (nk :> [parentKey |-> nodeKey, step |-> step]) @@ @,
                         !.found = TRUE]
        ELSE NeighborLoop(neighbors, i + 1, nodeKey, targetKey,
                          [bfs EXCEPT !.visited = @ \cup {nk},
                                      !.parent = (nk :> [parentKey |-> nodeKey,
                                                        step |-> step]) @@ @,
                                      !.queue = Append(@, BfsStep(step.x, step.y, step.rot,
                                                                  "node"))])

\* while (head < queue.length); head is 1-based here.
RECURSIVE PathLoop(_, _, _, _, _, _, _)
PathLoop(b, piece, rotateFn, startKey, targetKey, bfs, head) ==
  IF head > Len(bfs.queue) THEN << >>
  ELSE
    LET node == bfs.queue[head]
        after == NeighborLoop(AnimNeighbors(b, piece, rotateFn, node), 1,
                              encodeKey(node.x, node.y, node.rot), targetKey, bfs)
    IN  IF after.found THEN reconstructPath(after.parent, startKey, targetKey)
        ELSE PathLoop(b, piece, rotateFn, startKey, targetKey, after, head + 1)

bfsPath(b, piece, startX, startY, targetX, targetY, targetRot, rotateFn, spawnRotation) ==
  IF Collides(b, piece, spawnRotation, startX, startY) THEN << >>
  ELSE
    LET targetKey == encodeKey(targetX, targetY, targetRot)
        startKey == encodeKey(startX, startY, spawnRotation)
    IN  IF startKey = targetKey THEN << >>
        ELSE PathLoop(b, piece, rotateFn, startKey, targetKey,
                      [queue |-> << BfsStep(startX, startY, spawnRotation, "node") >>,
                       visited |-> {startKey}, parent |-> << >>, found |-> FALSE], 1)

Keyframe(type, piece, rotation, px, py, input) ==
  [type |-> type, piece |-> piece, rotation |-> rotation, x |-> px, y |-> py, input |-> input]

\* The keyframe of a step of the path.
StepFrame(piece, step) ==
  Keyframe(IF step.move = "drop" THEN "drop"
           ELSE IF step.move \in {"left", "right"} THEN "move" ELSE "rotate",
           piece, step.rot, step.x, step.y,
           IF step.move = "drop" THEN "down" ELSE step.move)

\* if (path.length === 0): the frames after the spawn frame.
EmptyPathFrames(piece, placement, hasHardDrop) ==
  (IF hasHardDrop
   THEN << Keyframe("drop", piece, placement.rotation, placement.x, placement.y, "hardDrop") >>
   ELSE << >>)
  \o << Keyframe("lock", piece, placement.rotation, placement.x, placement.y, "null") >>

\* The frames of a path that is not empty: one per step, then the lock.
PathFrames(piece, placement, path, hasHardDrop) ==
  [i \in 1 .. Len(path) |-> StepFrame(piece, path[i])]
  \o << Keyframe("lock", piece, placement.rotation, placement.x, placement.y,
                 IF hasHardDrop THEN "hardDrop" ELSE "null") >>

planAnimation(b, placement, boardWidth, boardHeight, rotateFn, spawnRotation, spawnPosFn, hasHardDrop, initialDrop) ==
  LET piece == placement.piece
      rawSpawn == ModeSpawnPos(spawnPosFn, piece, boardWidth, boardHeight)
      spawnX == rawSpawn.x
      spawnY == IF initialDrop /\ ~Collides(b, piece, spawnRotation, spawnX, rawSpawn.y - 1)
                THEN rawSpawn.y - 1 ELSE rawSpawn.y
  IN  IF Collides(b, piece, spawnRotation, rawSpawn.x, rawSpawn.y) THEN << >>
      ELSE CHOOSE out \in
             {<< Keyframe("spawn", piece, spawnRotation, spawnX, spawnY, "null") >>
              \o (IF Len(path) = 0 THEN EmptyPathFrames(piece, placement, hasHardDrop)
                  ELSE PathFrames(piece, placement, path, hasHardDrop)) :
                path \in {bfsPath(b, piece, spawnX, spawnY, placement.x, placement.y,
                                  placement.rotation, rotateFn, spawnRotation)}} : TRUE

(***************************************************************************)
(* The web game: ColorBoard (part_007), HumanRandomizer, the reducer        *)
(* (web/src/state/reducer.ts, first text) and useGameLoop (part_006).  The  *)
(* board is BoardW x VisibleH with BufferRows rows above, as elsewhere;     *)
(* the modern mode keeps initialPicks = previewCount + 1 at the preview     *)
(* length WebPreview (5 and 6 in the source).  Of the ViewState the model   *)
(* keeps phase, mode, picksRemaining, piecesPlaced, clearingLines,          *)
(* collapseShifts, activePiece and gameOver; the score and the cells shown  *)
(* are left out.  A render and its effects follow every handler at once.    *)
(***************************************************************************)
WebPieces == {piece \in Pieces : piece < NumWebPieces}

\* mode.ts classicMode() / modernMode(): the fields the web game reads.
classicModeConfig ==
  [mode |-> "classic", gameConfig |-> classicMode, initialPicks |-> 2]
modernModeConfig ==
  [mode |-> "modern", gameConfig |-> [modernMode EXCEPT !.previewCount = WebPreview],
   initialPicks |-> WebPreview + 1]

\* new ColorBoard(width, totalHeight)
newColorBoard(totalHeight) ==
  [totalHeight |-> totalHeight, colors |-> [i \in 0 .. (BoardW * totalHeight - 1) |-> Null]]

\* ColorBoard.get
colorGet(cb, x, y) ==
  IF x < 0 \/ x >= BoardW \/ y < 0 \/ y >= cb.totalHeight THEN Null
  ELSE cb.colors[y * BoardW + x]

\* A placePiece that colours nothing.
colorPlaceNothing(cb, piece, rotation, px, py) == cb

\* ColorBoard.placePiece: the cells inside the board take the piece.
colorPlacePiece(cb, piece, rotation, px, py) ==
  LET cells == PIECE_CELLS(piece, rotation)
      hit(i) == \E k \in 1 .. 4 :
                  LET bx == px + cells[k].x
                      by == py + cells[k].y
                  IN  /\ bx >= 0 /\ bx < BoardW /\ by >= 0 /\ by < cb.totalHeight
                      /\ by * BoardW + bx = i
  IN  [cb EXCEPT !.colors = [i \in DOMAIN cb.colors |->
                               IF hit(i) THEN Some(piece) ELSE cb.colors[i]]]

\* The rows of 0 .. h - 1 outside `rows`, in ascending order.
RECURSIVE KeptRows(_, _, _)
KeptRows(rows, y, h) ==
  IF y >= h THEN << >>
  ELSE (IF \E i \in DOMAIN rows : rows[i] = y THEN << >> ELSE << y >>)
       \o KeptRows(rows, y + 1, h)

\* ColorBoard.clearLines(rows)
colorClearLines(cb, rows) ==
  IF Len(rows) = 0 THEN cb
  ELSE LET kept == KeptRows(rows, 0, cb.totalHeight)
       IN  [cb EXCEPT !.colors = [i \in DOMAIN cb.colors |->
                                    IF i \div BoardW < Len(kept)
                                    THEN cb.colors[kept[(i \div BoardW) + 1] * BoardW
                                                   + (i % BoardW)]
                                    ELSE Null]]

\* ColorBoard.syncWithBoard(board)
colorSyncWithBoard(cb, board) ==
  [cb EXCEPT !.colors = [i \in DOMAIN cb.colors |->
                           IF ~BoardGet(board, i % BoardW, i \div BoardW) THEN Null
                           ELSE cb.colors[i]]]

\* The loop of reducer.applyPlacement that collects the full rows.
RECURSIVE fullRowsFrom(_, _, _)
fullRowsFrom(cb, y, h) ==
  IF y >= h THEN << >>
  ELSE (IF \A x \in 0 .. (BoardW - 1) : colorGet(cb, x, y) # Null THEN << y >> ELSE << >>)
       \o fullRowsFrom(cb, y + 1, h)

\* computeCollapseShifts(clearedRows, boardHeight)
computeCollapseShifts(clearedRows, boardHeight) ==
  LET kept == KeptRows(clearedRows, 0, boardHeight)
  IN  [w \in 0 .. (boardHeight - 1) |-> IF w < Len(kept) THEN kept[w + 1] - w ELSE 0]

\* createEngineRefs()
createEngineRefs ==
  [game |-> Null, queue |-> << >>, colorBoard |-> Null, modeConfig |-> Null]

\* createInitialView(modeConfig)
createInitialView(modeConfig) ==
  [phase |-> "START_SCREEN",
   mode |-> IF modeConfig = Null THEN Null ELSE Some(modeConfig[1].mode),
   picksRemaining |-> 0, piecesPlaced |-> 0, clearingLines |-> Null,
   collapseShifts |-> Null, activePiece |-> Null, gameOver |-> FALSE]

\* getViewFromEngine(refs, phase, scoreState, piecesPlaced, clearingLines)
getViewFromEngine(r, phase, piecesPlaced, clearingLines) ==
  IF r.game = Null \/ r.colorBoard = Null
  THEN [createInitialView(r.modeConfig) EXCEPT !.phase = phase]
  ELSE [phase |-> phase,
        mode |-> IF r.modeConfig = Null THEN Null ELSE Some(r.modeConfig[1].mode),
        picksRemaining |-> 0, piecesPlaced |-> piecesPlaced,
        clearingLines |-> clearingLines, collapseShifts |-> Null,
        activePiece |->
          IF phase \in {"BOT_THINKING", "WAITING_FOR_PLAYER", "GAME_OVER", "LINE_CLEARING"}
          THEN Null
          ELSE Some([piece |-> r.game[1].currentPiece,
                     rotation |-> r.game[1].currentRotation, x |-> r.game[1].currentX,
                     y |-> r.game[1].currentY]),
        gameOver |-> r.game[1].gameOver]

\* startGame(refs, modeConfig): [refs, view]
startGame(r, modeConfig) ==
  [refs |-> [game |-> Null, queue |-> << >>, colorBoard |-> Null,
             modeConfig |-> Some(modeConfig)],
   view |-> [createInitialView(Some(modeConfig)) EXCEPT
               !.phase = "PICKING", !.picksRemaining = modeConfig.initialPicks],
   threw |-> FALSE]

\* The Game that pickPiece builds: new Game({width, height, bufferRows,
\* previewCount, allowHold, seed, rotationSystem}), whose config has no
\* initialDrop and no truncateLock, with the first piece of the human
\* randomizer at its spawn position.
webGame(modeConfig, firstPiece) ==
  LET rs == modeConfig.gameConfig.rotationSystem
      pos == ModeSpawnPos(rs, firstPiece, BoardW, VisibleH)
  IN  [config |-> [rotationSystem |-> rs,
                   previewCount |-> modeConfig.gameConfig.previewCount,
                   allowHold |-> modeConfig.gameConfig.allowHold,
                   initialDrop |-> FALSE, truncateLock |-> FALSE],
       board |-> NewBoard(VisibleH + BufferRows), currentPiece |-> firstPiece,
       currentRotation |-> ModeSpawnRot(rs, firstPiece), currentX |-> pos.x,
       currentY |-> pos.y, holdPiece |-> Null, holdUsed |-> FALSE, linesCleared |-> 0,
       piecesPlaced |-> 0, gameOver |-> FALSE, buffer |-> << >>]

\* pickPiece(refs, piece, currentView): [refs, view, threw]; threw says that
\* HumanRandomizer.next() met an empty queue.
pickPiece(r, piece, currentView) ==
  IF r.modeConfig = Null THEN [refs |-> r, view |-> currentView, threw |-> FALSE]
  ELSE
    LET queue == Append(r.queue, piece)
        remaining == currentView.picksRemaining - 1
    IN  IF remaining > 0
        THEN [refs |-> [r EXCEPT !.queue = queue],
              view |-> [currentView EXCEPT !.picksRemaining = remaining],
              threw |-> FALSE]
        ELSE IF Len(queue) = 0
        THEN [refs |-> [r EXCEPT !.queue = queue], view |-> currentView, threw |-> TRUE]
        ELSE
          LET r1 == [r EXCEPT !.queue = Tail(queue),
                              !.game = Some(webGame(r.modeConfig[1], Head(queue))),
                              !.colorBoard = Some(newColorBoard(VisibleH + BufferRows))]
          IN  [refs |-> r1, view |-> getViewFromEngine(r1, "BOT_THINKING", 0, Null),
               threw |-> FALSE]

\* game.getPreview(): HumanRandomizer.peek(previewCount) is queue.slice(0, count).
webPreview(r) ==
  SubSeq(r.queue, 1, IF Len(r.queue) < r.game[1].config.previewCount THEN Len(r.queue)
                     ELSE r.game[1].config.previewCount)

\* A pickNextPiece that hands over to the bot after every pick.
pickNextPieceEager(r, piece, currentPiecesPlaced) ==
  LET r1 == [r EXCEPT !.queue = Append(r.queue, piece)]
  IN  [refs |-> r1,
       view |-> getViewFromEngine(r1, "BOT_THINKING", currentPiecesPlaced, Null),
       threw |-> FALSE]

\* pickNextPiece(refs, piece, currentScore, currentPiecesPlaced)
pickNextPiece(r, piece, currentPiecesPlaced) ==
  LET r1 == [r EXCEPT !.queue = Append(r.queue, piece)]
  IN  [refs |-> r1,
       view |-> IF Len(webPreview(r1)) < r1.game[1].config.previewCount
                THEN getViewFromEngine(r1, "WAITING_FOR_PLAYER", currentPiecesPlaced, Null)
                ELSE getViewFromEngine(r1, "BOT_THINKING", currentPiecesPlaced, Null),
       threw |-> FALSE]

\* applyAnimationFrame(refs, frame, currentScore, currentPiecesPlaced)
applyAnimationFrame(r, frame, currentPiecesPlaced) ==
  [getViewFromEngine(r, "BOT_ANIMATING", currentPiecesPlaced, Null) EXCEPT
     !.activePiece = Some([piece |-> frame.piece, rotation |-> frame.rotation,
                           x |-> frame.x, y |-> frame.y])]

\* game.applyPlacement(placement) on a Game whose randomizer is the human
\* one: the queue is followed by two pieces that only a next() on the empty
\* queue can reach, so that `threw` says whether one was made.
humanApplyPlacement(g, queue, placement) ==
  CHOOSE out \in
    {LET left == Len(res.game.buffer)
     IN  [game |-> [res.game EXCEPT !.buffer = << >>],
          queue |-> IF left >= 2 THEN SubSeq(res.game.buffer, 1, left - 2) ELSE << >>,
          result |-> res.result, threw |-> left < 2,
          nextCalls |-> Len(queue) + 2 - left] :
       res \in {applyPlacement([g EXCEPT !.buffer = queue \o << PieceI, PieceI >>],
                               placement, PieceI, PieceI)}} : TRUE

\* reducer.applyPlacement(refs, placement, currentScore, currentPiecesPlaced):
\* [refs, view, threw, nextCalls].
reducerApplyPlacement(r, placement, currentPiecesPlaced) ==
  IF r.game = Null \/ r.colorBoard = Null
  THEN [refs |-> r, view |-> createInitialView(r.modeConfig), threw |-> FALSE,
        nextCalls |-> 0]
  ELSE
    CHOOSE out \in
      {LET placed == colorPlacePiece(r.colorBoard[1], placement.piece, placement.rotation,
                                     placement.x, placement.y)
           fullRows == fullRowsFrom(placed, 0, VisibleH + BufferRows)
           r1 == [r EXCEPT !.game = Some(a.game), !.queue = a.queue,
                           !.colorBoard = Some(placed)]
       IN  IF a.threw
           THEN LET r2 == [r1 EXCEPT !.game = Some([a.game EXCEPT !.gameOver = TRUE])]
                IN  [refs |-> r2,
                     view |-> getViewFromEngine(r2, "GAME_OVER", currentPiecesPlaced, Null),
                     threw |-> TRUE, nextCalls |-> a.nextCalls]
           ELSE IF a.result.gameOver
           THEN [refs |-> r1,
                 view |-> getViewFromEngine(r1, "GAME_OVER", currentPiecesPlaced, Null),
                 threw |-> FALSE, nextCalls |-> a.nextCalls]
           ELSE IF a.result.linesCleared > 0
           THEN LET r2 == [r1 EXCEPT !.colorBoard =
                             Some(colorSyncWithBoard(colorClearLines(placed, fullRows),
                                                     a.game.board))]
                IN  [refs |-> r2,
                     view |-> getViewFromEngine(r2, "LINE_CLEARING",
                                                currentPiecesPlaced + 1, Some(fullRows)),
                     threw |-> FALSE, nextCalls |-> a.nextCalls]
           ELSE LET r2 == [r1 EXCEPT !.colorBoard =
                             Some(colorSyncWithBoard(placed, a.game.board))]
                IN  [refs |-> r2,
                     view |-> getViewFromEngine(r2, "WAITING_FOR_PLAYER",
                                                currentPiecesPlaced + 1, Null),
                     threw |-> FALSE, nextCalls |-> a.nextCalls] :
         a \in {humanApplyPlacement(r.game[1], r.queue, placement)}} : TRUE

(***************************************************************************)
(* State.  The variables are grouped by the part of the program they hold; *)
(* each specification below moves one group and leaves the others idle.    *)
(***************************************************************************)
VARIABLES
  \* board.ts objects: the typed arrays live in memory cells, a Board holds
  \* the addresses of its two arrays (so that aliasing can be expressed).
  cellsMem,      \* address -> Uint8Array contents
  heightsMem,    \* address -> Int32Array contents
  boardA,        \* a Board: [totalHeight, cells |-> address, colHeights |-> address]
  boardB,        \* Null, or Some(Board): the result of boardA.clone()
  lastOp,        \* the last Board operation, its target, clearLines' count
  cloneOps,      \* operations applied since the clone was taken
  \* a Board handed to clearLines (SpecClear)
  clearPre,      \* the cells before the last clearLines call
  clearBoard,    \* the Board (cells and colHeights), mutated in place
  clearRet,      \* Null, or Some({count, rows}) returned by the last call
  \* a call of generatePlacements (SpecPlace)
  plBoard,       \* the Board argument
  plPiece,       \* the piece argument
  plMode,        \* the rotation system whose spawn and rotation are passed
  plOut,         \* Null, or Some(the returned Placement[])
  \* a call of a planner on a snapshot (SpecPlan)
  planSnap,      \* the GameSnapshot argument
  planBy,        \* "none", or the planner called: "greedy", "beam", "expectimax"
  planCfg,       \* the config argument: [depth, beamWidth]
  planOut,       \* the returned value: Null, or Some(Placement)
  \* a Game driven by a planner (SpecGame)
  game,          \* the Game
  pending,       \* Null, or Some([by, placement]): the planner's answer, not yet applied
  lastMove,      \* what the last applyPlacement call did
  \* a Game whose active piece is moved and rotated (SpecRotate)
  lastRotate,    \* Null, or Some(the arguments and the result of the last rotate call)
  \* a call of extractFeatures and of evaluate (SpecFeat)
  featIn,        \* the arguments: [board, landingCells, linesCleared, pieceCellsInCleared]
  featOut,       \* Null, or Some(the returned FeatureVector)
  featScore,     \* Null, or Some(what evaluate returned for featOut)
  \* a call of a function or of a Game method (SpecCalls, SpecHold, SpecAnim)
  callArgs,      \* the function called and its arguments
  callRet,       \* Null, or Some(what the call returned)
  \* a Randomizer and a clone of it (SpecRandom)
  rnd,           \* the Randomizer: [type, seed, rng, buffer]
  rndRet,        \* Null, or Some(count and result of the peek(count) call just made)
  rndClone,      \* Null, or Some(the Randomizer that rnd.clone() returned)
  rndLog,        \* what next() and peek() returned, and when the clone was taken
  bfsArgs,       \* the arguments of a generatePlacements call in progress: [spawnX, spawnY, spawnRot]
  bfsRun,        \* its locals: [visited, queue, head, groundedKey, placements]
  refs,          \* reducer.ts EngineRefs: [game, queue, colorBoard, modeConfig]
  view,          \* the ViewState of useGameLoop
  loop,          \* the refs of useGameLoop: [genRef, timerRef, animRef, effectTimer, cancels, mounted]
  callbacks,     \* the timer and animation-frame callbacks not yet run
  fired          \* what the last step was: [kind, stale, changed, threw]

boardVars == << cellsMem, heightsMem, boardA, boardB, lastOp, cloneOps >>
clearVars == << clearPre, clearBoard, clearRet >>
placeVars == << plBoard, plPiece, plMode, plOut >>

planVars == << planSnap, planBy, planCfg, planOut >>
gameVars == << game, pending, lastMove >>
rotVars == << lastRotate >>
featVars == << featIn, featOut, featScore >>
callVars == << callArgs, callRet >>
rndVars == << rnd, rndClone, rndRet, rndLog >>
bfsVars == << bfsArgs, bfsRun >>
webVars == << refs, view, loop, callbacks, fired >>

vars ==
  << boardVars, clearVars, placeVars, planVars, gameVars, rotVars, featVars, callVars,
     rndVars, bfsVars, webVars >>

\* What a specification leaves idle.
notRndVars ==
  << boardVars, clearVars, placeVars, planVars, gameVars, rotVars, featVars, callVars, bfsVars, webVars >>
notFeatVars == << boardVars, clearVars, placeVars, planVars, gameVars, rotVars, callVars, rndVars, bfsVars, webVars >>
notBoardVars == << clearVars, placeVars, planVars, gameVars, rotVars, featVars, callVars, rndVars, bfsVars, webVars >>
notClearVars == << boardVars, placeVars, planVars, gameVars, rotVars, featVars, callVars, rndVars, bfsVars, webVars >>
notPlaceVars == << boardVars, clearVars, planVars, gameVars, rotVars, featVars, callVars, rndVars, bfsVars, webVars >>
notPlanVars == << boardVars, clearVars, placeVars, gameVars, rotVars, featVars, callVars, rndVars, bfsVars, webVars >>
notGameVars == << boardVars, clearVars, placeVars, planVars, rotVars, featVars, callVars, rndVars, bfsVars, webVars >>
notWebVars ==
  << boardVars, clearVars, placeVars, planVars, gameVars, rotVars, featVars, callVars, rndVars, bfsVars >>
notBfsVars ==
  << boardVars, clearVars, placeVars, planVars, gameVars, rotVars, featVars, callVars, rndVars, webVars >>

Addrs == {1, 2, 3}

\* The Board value (both arrays by content) behind a Board object.
Deref(cm, hm, ref) ==
  [totalHeight |-> ref.totalHeight, cells |-> cm[ref.cells], colHeights |-> hm[ref.colHeights]]

BoardVarsInit ==
  /\ cellsMem = [a \in Addrs |-> EmptyBoard.cells]
  /\ heightsMem = [a \in Addrs |-> EmptyBoard.colHeights]
  /\ boardA = [totalHeight |-> TotalH, cells |-> 1, colHeights |-> 1]
  /\ boardB = Null
  /\ lastOp = [op |-> "new", target |-> "a", ret |-> 0]
  /\ cloneOps = 0

\* board.ts clone(): `new Board` allocates two fresh arrays (address 2 here),
\* `b.cells.set(this.cells)` and `b.colHeights.set(this.colHeights)` copy the
\* contents.  Returns the new memory and the new object.
cloneAliasCells(cm, hm, ref) ==
  [cellsMem |-> cm,
   heightsMem |-> [hm EXCEPT ![2] = hm[ref.colHeights]],
   board |-> [totalHeight |-> ref.totalHeight, cells |-> ref.cells, colHeights |-> 2]]

cloneBoard(cm, hm, ref) ==
  [cellsMem |-> [cm EXCEPT ![2] = cm[ref.cells]],
   heightsMem |-> [hm EXCEPT ![2] = hm[ref.colHeights]],
   board |-> [totalHeight |-> ref.totalHeight, cells |-> 2, colHeights |-> 2]]

\* Writing the Board value nb back through the object ref.
Store(ref, nb) ==
  /\ cellsMem' = [cellsMem EXCEPT ![ref.cells] = nb.cells]
  /\ heightsMem' = [heightsMem EXCEPT ![ref.colHeights] = nb.colHeights]

Targets == {"a"} \cup (IF boardB # Null THEN {"b"} ELSE {})
RefOf(t) == IF t = "a" THEN boardA ELSE boardB[1]
BoardOf(t) == Deref(cellsMem, heightsMem, RefOf(t))

\* While a clone exists only MaxCloneOps operations are applied.
OpAllowed == boardB = Null \/ cloneOps < MaxCloneOps
CountOp == cloneOps' = IF boardB = Null THEN 0 ELSE cloneOps + 1

FilledCount(cells) == Cardinality({i \in DOMAIN cells : cells[i] = 1})
\* The bound on the boards explored: an operation is taken when its result
\* holds at most MaxBoardFilled cells.
Small(nb) == FilledCount(nb.cells) <= MaxBoardFilled

DoSet(t, x, y, val) ==
  /\ OpAllowed
  /\ Small(BoardSet(BoardOf(t), x, y, val))
  /\ Store(RefOf(t), BoardSet(BoardOf(t), x, y, val))
  /\ lastOp' = [op |-> "set", target |-> t, ret |-> 0]
  /\ CountOp
  /\ UNCHANGED << boardA, boardB, notBoardVars >>

\* placePiece at a position the caller found free (Game.lock, simulatePlacement);
\* with truncation at FillRows or without.
DoPlacePiece(t, piece, rotation, px, py, trunc) ==
  /\ OpAllowed
  /\ ~Collides(BoardOf(t), piece, rotation, px, py)
  /\ LET r == placePiece(BoardOf(t), piece, rotation, px, py, trunc)
     IN  /\ \A i \in 1 .. Len(r.placed) : r.placed[i].y < FillRows
         /\ Small(r.board)
         /\ Store(RefOf(t), r.board)
         /\ lastOp' = [op |-> "placePiece", target |-> t, ret |-> 0]
  /\ CountOp
  /\ UNCHANGED << boardA, boardB, notBoardVars >>

DoClearLines(t) ==
  /\ OpAllowed
  /\ LET r == clearLines(BoardOf(t))
     IN  /\ Store(RefOf(t), r.board)
         /\ lastOp' = [op |-> "clearLines", target |-> t, ret |-> r.count]
  /\ CountOp
  /\ UNCHANGED << boardA, boardB, notBoardVars >>

DoClone ==
  /\ boardB = Null
  /\ LET r == cloneBoard(cellsMem, heightsMem, boardA)
     IN  /\ cellsMem' = r.cellsMem
         /\ heightsMem' = r.heightsMem
         /\ boardB' = Some(r.board)
  /\ lastOp' = [op |-> "clone", target |-> "a", ret |-> 0]
  /\ cloneOps' = 0
  /\ UNCHANGED << boardA, notBoardVars >>

\* The clone goes out of scope; its arrays are garbage (zeroed here).
DropClone ==
  /\ boardB # Null
  /\ boardB' = Null
  /\ cellsMem' = [cellsMem EXCEPT ![2] = EmptyBoard.cells]
  /\ heightsMem' = [heightsMem EXCEPT ![2] = EmptyBoard.colHeights]
  /\ lastOp' = [op |-> "drop", target |-> "b", ret |-> 0]
  /\ cloneOps' = 0
  /\ UNCHANGED << boardA, notBoardVars >>

ClearVarsIdle ==
  /\ clearPre = EmptyBoard.cells
  /\ clearBoard = EmptyBoard
  /\ clearRet = Null

PlaceVarsIdle ==
  /\ plBoard = EmptyBoard
  /\ plPiece = PieceI
  /\ plMode = "srs"
  /\ plOut = Null

\* The snapshot of a game nobody has built: an empty board.
IdleSnapshot ==
  [board |-> EmptyBoard, height |-> VisibleH, rotationSystem |-> "srs",
   initialDrop |-> FALSE, truncateLock |-> FALSE, currentPiece |-> PieceI,
   holdPiece |-> Null, holdUsed |-> FALSE, allowHold |-> FALSE, preview |-> << >>]

PlanVarsIdle ==
  /\ planSnap = IdleSnapshot
  /\ planBy = "none"
  /\ planCfg = [depth |-> 1, beamWidth |-> 1]
  /\ planOut = Null

NoMove ==
  [by |-> "none", placement |-> Null, preBoard |-> EmptyBoard, preLines |-> 0,
   collided |-> FALSE, lockedOut |-> FALSE, locked |-> Null,
   result |-> [linesCleared |-> 0, pieceCellsInCleared |-> 0, gameOver |-> FALSE]]

GameVarsIdle ==
  /\ game = NewGame(classicMode, PieceI)
  /\ pending = Null
  /\ lastMove = NoMove

RotVarsIdle == lastRotate = Null

CallVarsIdle ==
  /\ callArgs = [fn |-> "none"]
  /\ callRet = Null

\* No piece drawn or foretold yet: drawn and cloneDrawn are what next() has
\* returned on the original and on the clone, clonedAt the number of draws
\* of the original when the clone was taken, promised[i] the pieces that
\* peeks have returned for the i-th draw to come, due those for the draw
\* just made.
NoDraws == [drawn |-> << >>, cloneDrawn |-> << >>, clonedAt |-> 0, promised |-> << >>, due |-> {}, peeks |-> 0]

\* useGameLoop before its first render has done anything.
WebVarsIdle ==
  /\ refs = [game |-> Null, queue |-> << >>, colorBoard |-> Null, modeConfig |-> Null]
  /\ view = [phase |-> "START_SCREEN"]
  /\ loop = [genRef |-> 0]
  /\ callbacks = {}
  /\ fired = [kind |-> "none"]

BfsVarsIdle ==
  /\ bfsArgs = Null
  /\ bfsRun = Null

RndVarsIdle ==
  /\ rnd = createRandomizer("uniform", 0)
  /\ rndClone = Null
  /\ rndRet = Null
  /\ rndLog = NoDraws

FeatVarsIdle ==
  /\ featIn = [board |-> EmptyBoard, landingCells |-> << 0 >>, linesCleared |-> 0,
               pieceCellsInCleared |-> 0]
  /\ featOut = Null
  /\ featScore = Null

BoardNext ==
  \/ \E t \in Targets, x \in 0 .. (BoardW - 1), y \in 0 .. (FillRows - 1), val \in BOOLEAN :
       DoSet(t, x, y, val)
  \/ \E t \in Targets, piece \in Pieces, rotation \in Rotations,
        px \in -2 .. (BoardW - 1), py \in -2 .. (FillRows - 1),
        trunc \in {Null, Some(FillRows)} :
       DoPlacePiece(t, piece, rotation, px, py, trunc)
  \/ \E t \in Targets : DoClearLines(t)
  \/ DoClone
  \/ DropClone

BoardInit ==
  /\ BoardVarsInit /\ ClearVarsIdle /\ PlaceVarsIdle /\ PlanVarsIdle /\ GameVarsIdle
  /\ RotVarsIdle /\ FeatVarsIdle /\ CallVarsIdle /\ RndVarsIdle /\ BfsVarsIdle /\ WebVarsIdle

SpecBoard == BoardInit /\ [][BoardNext]_vars

(***************************************************************************)
(* SpecClear: clearLines applied to every board whose filled cells lie in  *)
(* the rows below ClearRows, and again to its own result.                  *)
(***************************************************************************)
CellsOf(filled, totalHeight) ==
  [i \in 0 .. (BoardW * totalHeight - 1) |-> IF i \in filled THEN 1 ELSE 0]

\* A board with the cells `filled` as Board.set calls leave it: the heights
\* agree with the cells.
BoardOfCells(filled, totalHeight) ==
  [totalHeight |-> totalHeight,
   cells |-> CellsOf(filled, totalHeight),
   colHeights |-> rebuildColumnHeights(CellsOf(filled, totalHeight), totalHeight)]

ClearInit ==
  /\ BoardVarsInit
  /\ RotVarsIdle
  /\ FeatVarsIdle
  /\ CallVarsIdle
  /\ RndVarsIdle /\ BfsVarsIdle /\ WebVarsIdle
  /\ \E filled \in SUBSET (0 .. (ClearRows * BoardW - 1)) :
       /\ clearPre = CellsOf(filled, TotalH)
       /\ clearBoard = BoardOfCells(filled, TotalH)
  /\ clearRet = Null
  /\ PlaceVarsIdle
  /\ PlanVarsIdle
  /\ GameVarsIdle

DoClear ==
  /\ LET r == clearLines(clearBoard)
     IN  /\ clearPre' = clearBoard.cells
         /\ clearBoard' = r.board
         /\ clearRet' = Some([count |-> r.count, rows |-> r.rows])
  /\ UNCHANGED notClearVars

ClearNext == DoClear

SpecClear == ClearInit /\ [][ClearNext]_vars

(***************************************************************************)
(* SpecPlace: generatePlacements called as the planners call it, with the  *)
(* spawn position, spawn rotation and rotation function of a game mode     *)
(* (mode.ts classicMode / modernMode), on every board with at most         *)
(* MaxFilled filled cells in the visible rows.                             *)
(***************************************************************************)
PlaceInit ==
  /\ BoardVarsInit
  /\ RotVarsIdle
  /\ FeatVarsIdle
  /\ CallVarsIdle
  /\ RndVarsIdle /\ BfsVarsIdle /\ WebVarsIdle
  /\ ClearVarsIdle
  /\ PlanVarsIdle
  /\ GameVarsIdle
  /\ \E filled \in SUBSET (0 .. (VisibleH * BoardW - 1)) :
       /\ Cardinality(filled) <= MaxFilled
       /\ plBoard = BoardOfCells(filled, TotalH)
  /\ plPiece \in Pieces
  /\ plMode \in RotateFns
  /\ plOut = Null

Generate ==
  /\ plOut = Null
  /\ LET pos == ModeSpawnPos(plMode, plPiece, BoardW, VisibleH)
     IN  plOut' = Some(generatePlacements(plBoard, plPiece, pos.x, pos.y,
                                          ModeRotate(plMode), ModeSpawnRot(plMode, plPiece)))
  /\ UNCHANGED << plBoard, plPiece, plMode, notPlaceVars >>

PlaceNext == Generate

SpecPlace == PlaceInit /\ [][PlaceNext]_vars

(***************************************************************************)
(* SpecPlan: one call of a planner on a snapshot.  The snapshot's board    *)
(* has four buffer rows (greedySelect takes totalHeight - 4 as the visible *)
(* height) and at most MaxPlanFilled filled cells, in the top visible row  *)
(* and the row above it, where spawning and locking out are decided.       *)
(***************************************************************************)
PlanCells == {i \in 0 .. (BoardW * (VisibleH + 4) - 1) :
                i \div BoardW \in {VisibleH - 1, VisibleH}}

\* Hold state of a snapshot: [allowHold, holdUsed, holdPiece, preview].
PlanHolds ==
  {[allowHold |-> FALSE, holdUsed |-> FALSE, holdPiece |-> Null, preview |-> << PieceI >>],
   [allowHold |-> TRUE, holdUsed |-> FALSE, holdPiece |-> Some(PieceO),
    preview |-> << PieceI >>],
   [allowHold |-> TRUE, holdUsed |-> FALSE, holdPiece |-> Null, preview |-> << PieceI >>],
   [allowHold |-> TRUE, holdUsed |-> TRUE, holdPiece |-> Some(PieceO),
    preview |-> << PieceI >>]}

\* The rule sets a Game takes from mode.ts.
PlanModes == {classicMode, modernMode}

PlanInit ==
  /\ BoardVarsInit
  /\ RotVarsIdle
  /\ FeatVarsIdle
  /\ CallVarsIdle
  /\ RndVarsIdle /\ BfsVarsIdle /\ WebVarsIdle
  /\ ClearVarsIdle
  /\ PlaceVarsIdle
  /\ GameVarsIdle
  /\ \E filled \in SUBSET PlanCells, piece \in Pieces, h \in PlanHolds, m \in PlanModes :
       /\ Cardinality(filled) <= MaxPlanFilled
       /\ planSnap = [board |-> BoardOfCells(filled, VisibleH + 4), height |-> VisibleH,
                      rotationSystem |-> m.rotationSystem, initialDrop |-> m.initialDrop,
                      truncateLock |-> m.truncateLock, currentPiece |-> piece,
                      holdPiece |-> h.holdPiece, holdUsed |-> h.holdUsed,
                      allowHold |-> h.allowHold, preview |-> h.preview]
  /\ planBy = "none"
  /\ planCfg = [depth |-> 1, beamWidth |-> 1]
  /\ planOut = Null

RunGreedy ==
  /\ planBy = "none"
  /\ planBy' = "greedy"
  /\ planOut' = greedySelect(planSnap, BCTS_WEIGHTS)
  /\ UNCHANGED << planSnap, planCfg, notPlanVars >>

RunBeam(depth, beamWidth) ==
  /\ planBy = "none"
  /\ planBy' = "beam"
  /\ planCfg' = [depth |-> depth, beamWidth |-> beamWidth]
  /\ planOut' = beamSearchSelect(planSnap, BCTS_WEIGHTS, planCfg', Null)
  /\ UNCHANGED << planSnap, notPlanVars >>

RunExpectimax(depth) ==
  /\ planBy = "none"
  /\ planBy' = "expectimax"
  /\ planCfg' = [depth |-> depth, beamWidth |-> 1]
  /\ planOut' = expectimaxSelect(planSnap, BCTS_WEIGHTS, [depth |-> depth], Null)
  /\ UNCHANGED << planSnap, notPlanVars >>

PlanNext ==
  \/ RunGreedy
  \/ \E depth \in 1 .. MaxPlanDepth, beamWidth \in 1 .. MaxPlanWidth :
       RunBeam(depth, beamWidth)
  \/ \E depth \in 1 .. MaxPlanDepth : RunExpectimax(depth)

SpecPlan == PlanInit /\ [][PlanNext]_vars

(***************************************************************************)
(* The planners under every configuration, the non-positive ones included: *)
(* one call of beamSearchSelect, beamSearch or expectimaxSelect on a       *)
(* snapshot of a modern-mode game whose board has cells in the bottom row. *)
(***************************************************************************)
TuneCells == 0 .. (BoardW - 1)
TuneDepths == -1 .. MaxTuneDepth
TuneWidths == -1 .. MaxTuneWidth

TuneInit ==
  /\ BoardVarsInit
  /\ RotVarsIdle
  /\ FeatVarsIdle
  /\ CallVarsIdle
  /\ RndVarsIdle /\ BfsVarsIdle /\ WebVarsIdle
  /\ ClearVarsIdle
  /\ PlaceVarsIdle
  /\ GameVarsIdle
  /\ \E filled \in SUBSET TuneCells, piece \in Pieces, h \in PlanHolds :
       /\ Cardinality(filled) <= MaxTuneFilled
       /\ planSnap = [board |-> BoardOfCells(filled, VisibleH + 4), height |-> VisibleH,
                      rotationSystem |-> modernMode.rotationSystem,
                      initialDrop |-> modernMode.initialDrop,
                      truncateLock |-> modernMode.truncateLock, currentPiece |-> piece,
                      holdPiece |-> h.holdPiece, holdUsed |-> h.holdUsed,
                      allowHold |-> h.allowHold, preview |-> h.preview]
  /\ planBy = "none"
  /\ planCfg = [depth |-> 1, beamWidth |-> 1]
  /\ planOut = Null

RunBeamSearch(depth, width) ==
  /\ planBy = "none"
  /\ planBy' = "beamSearch"
  /\ planCfg' = [depth |-> depth, beamWidth |-> width]
  /\ planOut' = beamSearch(planSnap, BCTS_WEIGHTS, [width |-> width, depth |-> depth])
  /\ UNCHANGED << planSnap, notPlanVars >>

TuneNext ==
  \* a negative width keeps all candidates but -width of them: it is run
  \* at one level only
  \/ \E depth \in TuneDepths, beamWidth \in TuneWidths :
       (beamWidth >= 0 \/ depth <= 1) /\ RunBeam(depth, beamWidth)
  \/ \E depth \in TuneDepths : RunBeamSearch(depth, 1)
  \/ \E depth \in TuneDepths : depth <= 1 /\ RunExpectimax(depth)

SpecTune == TuneInit /\ [][TuneNext]_vars

(***************************************************************************)
(* SpecRotate: a new Game on a board with a few preset cells; the active   *)
(* piece is moved and rotated through the Game's own methods, and the      *)
(* placements of the freshly spawned piece are generated.                  *)
(***************************************************************************)
RotateInit ==
  /\ BoardVarsInit
  /\ RotVarsIdle
  /\ FeatVarsIdle
  /\ CallVarsIdle
  /\ RndVarsIdle /\ BfsVarsIdle /\ WebVarsIdle
  /\ ClearVarsIdle
  /\ PlaceVarsIdle
  /\ PlanVarsIdle
  /\ \E config \in GameConfigs, draw \in Pieces, filled \in SUBSET (0 .. (VisibleH * BoardW - 1)) :
       /\ Cardinality(filled) <= MaxRotFilled
       /\ game = [NewGame(config, draw) EXCEPT !.board = BoardOfCells(filled, TotalH)]
       /\ ~Collides(game.board, game.currentPiece, game.currentRotation,
                    game.currentX, game.currentY)
  /\ pending = Null
  /\ lastMove = NoMove

\* What rotate hands to its tryRotateFn, and what comes back.
rotateCall(g, direction) ==
  [fromRot |-> g.currentRotation, direction |-> direction, x |-> g.currentX, y |-> g.currentY,
   result |-> CallRotate(ModeRotate(g.config.rotationSystem), g.board, g.currentPiece,
                         g.currentRotation, direction, g.currentX, g.currentY)]

rotate(g, call) ==
  IF call.result # Null
  THEN [g EXCEPT !.currentX = call.result[1].x, !.currentY = call.result[1].y,
                 !.currentRotation = call.result[1].rotation]
  ELSE g

MoveLeft ==
  /\ ~game.gameOver
  /\ game' = IF ~Collides(game.board, game.currentPiece, game.currentRotation,
                         game.currentX - 1, game.currentY)
              THEN [game EXCEPT !.currentX = game.currentX - 1]
              ELSE game
  /\ lastRotate' = Null
  /\ UNCHANGED << pending, lastMove, boardVars, clearVars, placeVars, planVars, featVars, callVars, rndVars, bfsVars, webVars >>

MoveRight ==
  /\ ~game.gameOver
  /\ game' = IF ~Collides(game.board, game.currentPiece, game.currentRotation,
                         game.currentX + 1, game.currentY)
              THEN [game EXCEPT !.currentX = game.currentX + 1]
              ELSE game
  /\ lastRotate' = Null
  /\ UNCHANGED << pending, lastMove, boardVars, clearVars, placeVars, planVars, featVars, callVars, rndVars, bfsVars, webVars >>

MoveDown ==
  /\ ~game.gameOver
  /\ game' = IF ~Collides(game.board, game.currentPiece, game.currentRotation,
                         game.currentX, game.currentY - 1)
              THEN [game EXCEPT !.currentY = game.currentY - 1]
              ELSE game
  /\ lastRotate' = Null
  /\ UNCHANGED << pending, lastMove, boardVars, clearVars, placeVars, planVars, featVars, callVars, rndVars, bfsVars, webVars >>

Rotate(direction) ==
  /\ ~game.gameOver
  /\ \E call \in {rotateCall(game, direction)} :
       /\ game' = rotate(game, call)
       /\ lastRotate' = Some(call)
  /\ UNCHANGED << pending, lastMove, boardVars, clearVars, placeVars, planVars, featVars, callVars, rndVars, bfsVars, webVars >>

\* The piece as spawn() left it: nothing has moved it yet.
AtSpawn(g) == g = [NewGame(g.config, g.currentPiece) EXCEPT !.board = g.board]

\* generatePlacements for the game's board and piece, from the spawn position
\* of the game's rules, with their rotation function and spawn rotation.
GenerateForGame ==
  /\ plOut = Null
  /\ lastRotate = Null
  /\ AtSpawn(game)
  /\ plBoard' = game.board
  /\ plPiece' = game.currentPiece
  /\ plMode' = game.config.rotationSystem
  /\ LET pos == ModeSpawnPos(plMode', plPiece', BoardW, VisibleH)
     IN  plOut' = Some(generatePlacements(plBoard', plPiece', pos.x, pos.y,
                                          ModeRotate(plMode'), ModeSpawnRot(plMode', plPiece')))
  /\ UNCHANGED << gameVars, rotVars, boardVars, clearVars, planVars, featVars, callVars, rndVars, bfsVars, webVars >>

RotateNext ==
  \/ MoveLeft
  \/ MoveRight
  \/ MoveDown
  \/ \E direction \in {1, -1} : Rotate(direction)
  \/ GenerateForGame

SpecRotate == RotateInit /\ [][RotateNext]_vars

(***************************************************************************)
(* SpecFeat: extractFeatures on a board as a lock and clearLines leave it, *)
(* then evaluate on the FeatureVector it returned.                         *)
(***************************************************************************)
FeatInit ==
  /\ BoardVarsInit
  /\ RotVarsIdle
  /\ CallVarsIdle
  /\ RndVarsIdle /\ BfsVarsIdle /\ WebVarsIdle
  /\ ClearVarsIdle
  /\ PlaceVarsIdle
  /\ PlanVarsIdle
  /\ GameVarsIdle
  /\ \E filled \in SUBSET (0 .. (VisibleH * BoardW - 1)), lo \in 0 .. 1, span \in 0 .. 1,
        linesCleared \in 0 .. MaxFeatLines :
       /\ Cardinality(filled) <= MaxFeatFilled
       /\ \A row \in 0 .. (VisibleH - 1) : ~isRowFull(BoardOfCells(filled, TotalH).cells, row)
       /\ featIn = [board |-> BoardOfCells(filled, TotalH),
                    landingCells |-> << lo, lo + span >>,
                    linesCleared |-> linesCleared,
                    pieceCellsInCleared |-> 2 * linesCleared]
  /\ featOut = Null
  /\ featScore = Null

\* extractFeatures in the text of features.ts 149-260.
ExtractFeatures ==
  /\ featOut = Null
  /\ featOut' = Some(extractFeatures(featIn.board, featIn.landingCells, featIn.linesCleared,
                                     featIn.pieceCellsInCleared))
  /\ UNCHANGED << featIn, featScore, notFeatVars >>

\* extractFeatures in the text of features.ts 15-133.
ExtractFeaturesNoWalls ==
  /\ featOut = Null
  /\ featOut' = Some(extractFeaturesNoWalls(featIn.board, featIn.landingCells,
                                            featIn.linesCleared, featIn.pieceCellsInCleared))
  /\ UNCHANGED << featIn, featScore, notFeatVars >>

\* evaluate of evaluator.ts on the extracted features.
Evaluate(weights) ==
  /\ featOut # Null
  /\ featScore = Null
  /\ featScore' = Some([weights |-> weights, reads |-> EvaluatorReads,
                        value |-> evaluatorEvaluate(featOut[1], weights)])
  /\ UNCHANGED << featIn, featOut, notFeatVars >>

\* evaluate in its eight-term text on the extracted features.
EvaluateEight ==
  /\ featOut # Null
  /\ featScore = Null
  /\ featScore' = Some([weights |-> BCTS_WEIGHTS, reads |-> SubSeq(EvaluatorReads, 1, 8),
                        value |-> Num(evaluate(featOut[1], BCTS_WEIGHTS))])
  /\ UNCHANGED << featIn, featOut, notFeatVars >>

FeatNext ==
  \/ ExtractFeatures
  \/ ExtractFeaturesNoWalls
  \/ \E weights \in {EVALUATOR_BCTS_WEIGHTS, NRS_WEIGHTS} : Evaluate(weights)
  \/ EvaluateEight

SpecFeat == FeatInit /\ [][FeatNext]_vars

(***************************************************************************)
(* SpecHold: a Game driven through hold(), hardDrop() and applyPlacement() *)
(* with targets of any kind.  callArgs keeps the call and the game before  *)
(* it, callRet what the call returned.                                     *)
(***************************************************************************)
\* The loop of hardDrop(): the lowest y the piece reaches.
RECURSIVE DropY(_, _)
DropY(g, y) ==
  IF Collides(g.board, g.currentPiece, g.currentRotation, g.currentX, y - 1) THEN y
  ELSE DropY(g, y - 1)

\* hardDrop(): [game, result, locked]
hardDrop(g, draw) ==
  IF g.gameOver
  THEN [game |-> g,
        result |-> [linesCleared |-> 0, pieceCellsInCleared |-> 0, gameOver |-> TRUE],
        lockedOut |-> FALSE, locked |-> Null]
  ELSE LET l == lock([g EXCEPT !.currentY = DropY(g, g.currentY)], draw)
       IN  [game |-> l.game, result |-> l.result, lockedOut |-> l.lockedOut,
            locked |-> Some(l.locked)]

HoldPieces == {piece \in Pieces : piece < NumHoldPieces}

HoldInit ==
  /\ BoardVarsInit
  /\ RotVarsIdle
  /\ FeatVarsIdle
  /\ RndVarsIdle /\ BfsVarsIdle /\ WebVarsIdle
  /\ ClearVarsIdle
  /\ PlaceVarsIdle
  /\ PlanVarsIdle
  /\ \E config \in GameConfigs, draw \in HoldPieces :
       /\ game = NewGame(config, draw)
       /\ callArgs = [fn |-> "new", pre |-> game]
  /\ pending = Null
  /\ lastMove = NoMove
  /\ callRet = Null

Hold ==
  /\ game.piecesPlaced < MaxHoldPlaced
  /\ \E draw \in HoldPieces :
       \E r \in {hold(game, draw)} :
         /\ game' = r.game
         /\ callRet' = Some(r.ok)
  /\ callArgs' = [fn |-> "hold", pre |-> game]
  /\ UNCHANGED << pending, lastMove, boardVars, clearVars, placeVars, planVars, rotVars,
                  featVars, rndVars, bfsVars, webVars >>

HardDrop ==
  /\ game.piecesPlaced < MaxHoldPlaced
  /\ \E draw \in HoldPieces :
       \E r \in {hardDrop(game, draw)} :
         /\ game' = r.game
         /\ callRet' = Some(r.result)
         /\ callArgs' = [fn |-> "hardDrop", pre |-> game, locked |-> r.locked # Null,
                         lockedOut |-> r.lockedOut]
  /\ UNCHANGED << pending, lastMove, boardVars, clearVars, placeVars, planVars, rotVars,
                  featVars, rndVars, bfsVars, webVars >>

\* The targets handed to applyPlacement: where the piece is, one row up, below
\* the floor, and in the bottom rows (free or taken).
HoldTargets(g) ==
  {[rotation |-> g.currentRotation, x |-> g.currentX, y |-> y] :
     y \in {g.currentY, g.currentY + 1, -1}}
  \cup {[rotation |-> R0, x |-> 0, y |-> y] : y \in 0 .. 1}

ApplyPlacementAt(target, held) ==
  /\ game.piecesPlaced < MaxHoldPlaced
  /\ \E draw1 \in HoldPieces, draw2 \in HoldPieces :
       \E placement \in {[piece |-> game.currentPiece, rotation |-> target.rotation,
                          x |-> target.x, y |-> target.y, held |-> held]} :
         \E r \in {applyPlacement(game, placement, draw1, draw2)} :
           /\ game' = r.game
           /\ callRet' = Some(r.result)
           /\ callArgs' = [fn |-> "applyPlacement", pre |-> game, placement |-> placement,
                           locked |-> r.locked # Null, lockedOut |-> r.lockedOut,
                           overAfterHold |-> r.overAfterHold]
  /\ UNCHANGED << pending, lastMove, boardVars, clearVars, placeVars, planVars, rotVars,
                  featVars, rndVars, bfsVars, webVars >>

\* moveLeft() and moveRight(): dx is -1 or 1.
Shift(dx) ==
  /\ ~game.gameOver
  /\ game.piecesPlaced < MaxHoldPlaced
  /\ game' = IF ~Collides(game.board, game.currentPiece, game.currentRotation,
                         game.currentX + dx, game.currentY)
              THEN [game EXCEPT !.currentX = game.currentX + dx]
              ELSE game
  /\ callArgs' = [fn |-> "move", pre |-> game]
  /\ callRet' = Null
  /\ UNCHANGED << pending, lastMove, boardVars, clearVars, placeVars, planVars, rotVars,
                  featVars, rndVars, bfsVars, webVars >>

HoldNext ==
  \/ Hold
  \/ \E dx \in {-1, 1} : Shift(dx)
  \/ HardDrop
  \/ \E target \in HoldTargets(game), held \in BOOLEAN : ApplyPlacementAt(target, held)

SpecHold == HoldInit /\ [][HoldNext]_vars

(***************************************************************************)
(* SpecSim: Game.simulatePlacement, generatePlacements and the planners as *)
(* they act on Board objects in memory.  boardA is the board passed in,    *)
(* boardB an afterstate that was returned and kept; a call on boardA       *)
(* allocates at address 2, a call on the afterstate at address 3.          *)
(***************************************************************************)
\* A Board.clone() that hands out an object on the arrays of its source.
cloneIntoShared(cm, hm, ref, addr) ==
  [cellsMem |-> cm, heightsMem |-> hm,
   board |-> [totalHeight |-> ref.totalHeight, cells |-> ref.cells,
              colHeights |-> ref.colHeights]]

\* Board.clone() with the fresh arrays at address addr.
cloneInto(cm, hm, ref, addr) ==
  [cellsMem |-> [cm EXCEPT ![addr] = cm[ref.cells]],
   heightsMem |-> [hm EXCEPT ![addr] = hm[ref.colHeights]],
   board |-> [totalHeight |-> ref.totalHeight, cells |-> addr, colHeights |-> addr]]

\* The memory after writing the Board value nb through the object ref.
Written(mem, ref, nb) ==
  [cellsMem |-> [mem.cellsMem EXCEPT ![ref.cells] = nb.cells],
   heightsMem |-> [mem.heightsMem EXCEPT ![ref.colHeights] = nb.colHeights]]

\* Game.simulatePlacement on the object ref: the memory it leaves and what it
\* returns (Null, or Some result whose board is an object).
simulatePlacementMem(cm, hm, ref, addr, piece, rotation, x, y, visibleHeight, truncateAbove) ==
  CHOOSE out \in
    {IF Collides(Deref(c.cellsMem, c.heightsMem, c.board), piece, rotation, x, y)
     THEN [cellsMem |-> c.cellsMem, heightsMem |-> c.heightsMem, ret |-> Null]
     ELSE CHOOSE res \in
            {IF \/ Len(placed.placed) = 0
                \/ /\ visibleHeight # Null /\ truncateAbove = Null
                   /\ \A i \in 1 .. Len(placed.placed) :
                        placed.placed[i].y >= visibleHeight[1]
             THEN [cellsMem |-> Written(c, c.board, placed.board).cellsMem,
                   heightsMem |-> Written(c, c.board, placed.board).heightsMem,
                   ret |-> Null]
             ELSE CHOOSE done \in
                    {[cellsMem |-> Written(c, c.board, cl.board).cellsMem,
                      heightsMem |-> Written(c, c.board, cl.board).heightsMem,
                      ret |-> Some([board |-> c.board,
                                    linesCleared |-> cl.count,
                                    pieceCellsInCleared |->
                                      IF cl.count > 0 THEN CountIn(placed.placed, cl.rows)
                                      ELSE 0,
                                    landingCells |-> placed.placed])] :
                       cl \in {clearLines(placed.board)}} : TRUE :
               placed \in {PlaceLoop(Deref(c.cellsMem, c.heightsMem, c.board),
                                     PIECE_CELLS(piece, rotation), 1, x, y, truncateAbove,
                                     << >>)}} : TRUE :
       c \in {cloneInto(cm, hm, ref, addr)}} : TRUE

SimPieces == {piece \in Pieces : piece < NumSimPieces}
\* the cells of the first column, up to the visible height
SimCells == {i \in 0 .. (VisibleH * BoardW - 1) : i % BoardW = 0}
\* visibleHeight and truncateAbove as the planners pass them
SimOptions ==
  {[visibleHeight |-> Null, truncateAbove |-> Null],
   [visibleHeight |-> Some(VisibleH), truncateAbove |-> Null],
   [visibleHeight |-> Some(VisibleH), truncateAbove |-> Some(VisibleH)]}

SimInit ==
  /\ \E filled \in SUBSET SimCells :
       /\ Cardinality(filled) <= MaxSimFilled
       /\ cellsMem = [a \in Addrs |-> IF a = 1 THEN BoardOfCells(filled, TotalH).cells
                                      ELSE EmptyBoard.cells]
       /\ heightsMem = [a \in Addrs |-> IF a = 1 THEN BoardOfCells(filled, TotalH).colHeights
                                        ELSE EmptyBoard.colHeights]
  /\ boardA = [totalHeight |-> TotalH, cells |-> 1, colHeights |-> 1]
  /\ boardB = Null
  /\ lastOp = [op |-> "new", target |-> "a", ret |-> 0]
  /\ cloneOps = 0
  /\ callArgs = [fn |-> "none", seq |-> 0]
  /\ callRet = Null
  /\ ClearVarsIdle /\ PlaceVarsIdle /\ PlanVarsIdle /\ GameVarsIdle
  /\ RotVarsIdle /\ FeatVarsIdle /\ RndVarsIdle /\ BfsVarsIdle /\ WebVarsIdle

\* The placements a planner asks generatePlacements for, for a piece on a board.
SimPlacements(board, piece, mode, initialDrop, height) ==
  LET spawnRot == ModeSpawnRot(mode, piece)
      rawSpawn == ModeSpawnPos(mode, piece, BoardW, height)
      spawnY == IF initialDrop /\ ~Collides(board, piece, spawnRot, rawSpawn.x, rawSpawn.y - 1)
                THEN rawSpawn.y - 1 ELSE rawSpawn.y
  IN  IF Collides(board, piece, spawnRot, rawSpawn.x, rawSpawn.y) THEN << >>
      ELSE generatePlacements(board, piece, rawSpawn.x, spawnY, ModeRotate(mode), spawnRot)

NextCall(fn, t) == [fn |-> fn, target |-> t, seq |-> callArgs.seq + 1]

\* Game.simulatePlacement(board, ...) for a placement of generatePlacements or
\* for a raw position in the first row, which may collide.
SimulatePlacement(t, piece, opts) ==
  /\ callArgs.seq < MaxSimCalls
  /\ lastOp.op # "set"
  /\ t = "a" => boardB = Null
  /\ \E p \in (LET ps == SimPlacements(BoardOf(t), piece, "srs", FALSE, VisibleH)
              IN  {ps[i] : i \in DOMAIN ps})
            \cup {[piece |-> piece, rotation |-> R0, x |-> x, y |-> 0] : x \in 0 .. 1} :
       \E r \in {simulatePlacementMem(cellsMem, heightsMem, RefOf(t),
                                      IF t = "a" THEN 2 ELSE 3, piece, p.rotation, p.x, p.y,
                                      opts.visibleHeight, opts.truncateAbove)} :
         /\ cellsMem' = r.cellsMem
         /\ heightsMem' = r.heightsMem
         /\ callRet' = r.ret
         /\ boardB' = IF t = "a" /\ r.ret # Null THEN Some(r.ret[1].board) ELSE boardB
         /\ callArgs' = NextCall("simulatePlacement", t)
  /\ UNCHANGED << boardA, lastOp, cloneOps, clearVars, placeVars, planVars, gameVars, rotVars,
                  featVars, rndVars, bfsVars, webVars >>

\* generatePlacements(board, ...): it calls board.collides and nothing else of
\* the board.
GeneratePlacements(t, piece, mode) ==
  /\ callArgs.seq < MaxSimCalls
  /\ lastOp.op # "set"
  /\ callRet' = Some(SimPlacements(BoardOf(t), piece, mode.rotationSystem, mode.initialDrop,
                                   VisibleH))
  /\ callArgs' = NextCall("generatePlacements", t)
  /\ UNCHANGED << boardVars, clearVars, placeVars, planVars, gameVars, rotVars, featVars,
                  rndVars, bfsVars, webVars >>

\* The loop over the placements of the first ply, which every planner runs on
\* the board of the snapshot: one Game.simulatePlacement each.
RECURSIVE FirstPlyMem(_, _, _, _, _, _)
FirstPlyMem(mem, ref, placements, i, visibleHeight, truncateAbove) ==
  IF i > Len(placements) THEN mem
  ELSE FirstPlyMem(simulatePlacementMem(mem.cellsMem, mem.heightsMem, ref, 2,
                                        placements[i].piece, placements[i].rotation,
                                        placements[i].x, placements[i].y, visibleHeight,
                                        truncateAbove),
                   ref, placements, i + 1, visibleHeight, truncateAbove)

SimSnapshot(board, piece, mode) ==
  [board |-> board, height |-> VisibleH, rotationSystem |-> mode.rotationSystem,
   initialDrop |-> mode.initialDrop, truncateLock |-> mode.truncateLock,
   currentPiece |-> piece, holdPiece |-> Null, holdUsed |-> FALSE, allowHold |-> FALSE,
   preview |-> << PieceO >>]

\* A planner on a snapshot of boardA without hold.  Deeper plies call
\* simulatePlacement on afterstates, as SimulatePlacement("b", ...) does.
RunPlanner(planner, piece, mode) ==
  /\ callArgs.seq < MaxSimCalls
  /\ lastOp.op # "set"
  /\ boardB = Null
  /\ \E snap \in {SimSnapshot(BoardOf("a"), piece, mode)} :
       /\ callRet' = (IF planner = "greedy" THEN greedySelect(snap, BCTS_WEIGHTS)
                      ELSE IF planner = "beam"
                      THEN beamSearchSelect(snap, BCTS_WEIGHTS, [depth |-> 1, beamWidth |-> 1],
                                            Null)
                      ELSE expectimaxSelect(snap, BCTS_WEIGHTS, [depth |-> 1], Null))
       /\ \E mem \in
            {IF planner = "greedy"
             THEN FirstPlyMem([cellsMem |-> cellsMem, heightsMem |-> heightsMem], boardA,
                              SimPlacements(snap.board, piece, "srs", FALSE,
                                            snap.board.totalHeight - 4), 1, Null, Null)
             ELSE FirstPlyMem([cellsMem |-> cellsMem, heightsMem |-> heightsMem], boardA,
                              SimPlacements(snap.board, piece,
                                            IF planner = "beam" THEN "srs"
                                            ELSE snap.rotationSystem,
                                            snap.initialDrop, snap.height),
                              1, Some(snap.height),
                              IF snap.truncateLock THEN Some(snap.height) ELSE Null)} :
            /\ cellsMem' = mem.cellsMem
            /\ heightsMem' = mem.heightsMem
  /\ callArgs' = NextCall(planner, "a")
  /\ UNCHANGED << boardA, boardB, lastOp, cloneOps, clearVars, placeVars, planVars, gameVars,
                  rotVars, featVars, rndVars, bfsVars, webVars >>

\* board.set on one of the boards, after the calls (the last step of a run).
SetCell(t, x, y, val) ==
  /\ callArgs.seq >= 1
  /\ lastOp.op # "set"
  /\ Store(RefOf(t), BoardSet(BoardOf(t), x, y, val))
  /\ lastOp' = [op |-> "set", target |-> t, ret |-> 0]
  /\ UNCHANGED << boardA, boardB, cloneOps, notBoardVars >>

SimNext ==
  \/ \E t \in Targets, piece \in SimPieces, opts \in SimOptions : SimulatePlacement(t, piece, opts)
  \/ \E t \in Targets, piece \in SimPieces, mode \in GameConfigs : GeneratePlacements(t, piece, mode)
  \/ \E planner \in {"greedy", "beam", "expectimax"}, piece \in SimPieces, mode \in GameConfigs :
       RunPlanner(planner, piece, mode)
  \/ \E t \in Targets, x \in 0 .. 1, val \in BOOLEAN : SetCell(t, x, VisibleH - 1, val)

SpecSim == SimInit /\ [][SimNext]_vars

(***************************************************************************)
(* JavaScript numbers are IEEE-754 doubles.  chanceNode's aggregation is   *)
(* modelled bit-exactly: a double is [neg, man, exp] with value            *)
(* (-1)^neg * man * 2^exp, man a natural number below 2^53 held as a       *)
(* little-endian sequence of limbs (base 2^13), odd or zero.  Every        *)
(* operation computes the exact result and rounds it to nearest, ties to   *)
(* even.  The values met here are far from overflow and underflow.         *)
(***************************************************************************)
Limb == 2 ^ 13
\* 52 stored mantissa bits and the implicit leading one
Precision == 52 + 1

LimbAt(a, i) == IF i <= Len(a) THEN a[i] ELSE 0

RECURSIVE BigNorm(_)
BigNorm(a) ==
  IF Len(a) = 0 \/ a[Len(a)] # 0 THEN a ELSE BigNorm(SubSeq(a, 1, Len(a) - 1))

RECURSIVE BigOfInt(_)
BigOfInt(n) == IF n = 0 THEN << >> ELSE << n % Limb >> \o BigOfInt(n \div Limb)

RECURSIVE BigToInt(_)
BigToInt(a) == IF Len(a) = 0 THEN 0 ELSE a[1] + Limb * BigToInt(Tail(a))

RECURSIVE BigAddLoop(_, _, _, _)
BigAddLoop(a, b, i, carry) ==
  IF i > Len(a) /\ i > Len(b) THEN (IF carry = 0 THEN << >> ELSE << carry >>)
  ELSE << (LimbAt(a, i) + LimbAt(b, i) + carry) % Limb >>
       \o BigAddLoop(a, b, i + 1, (LimbAt(a, i) + LimbAt(b, i) + carry) \div Limb)
BigAdd(a, b) == BigAddLoop(a, b, 1, 0)

\* a - b for a >= b
RECURSIVE BigSubLoop(_, _, _, _)
BigSubLoop(a, b, i, borrow) ==
  IF i > Len(a) THEN << >>
  ELSE << (a[i] - LimbAt(b, i) - borrow) % Limb >>
       \o BigSubLoop(a, b, i + 1, IF a[i] - LimbAt(b, i) - borrow < 0 THEN 1 ELSE 0)
BigSub(a, b) == BigNorm(BigSubLoop(a, b, 1, 0))

\* -1, 0 or 1 as a < b, a = b or a > b
RECURSIVE BigCmpLoop(_, _, _)
BigCmpLoop(a, b, i) ==
  IF i = 0 THEN 0
  ELSE IF a[i] < b[i] THEN -1
  ELSE IF a[i] > b[i] THEN 1
  ELSE BigCmpLoop(a, b, i - 1)
BigCmp(a, b) ==
  IF Len(a) < Len(b) THEN -1
  ELSE IF Len(a) > Len(b) THEN 1
  ELSE BigCmpLoop(a, b, Len(a))

\* a * m for a limb m
RECURSIVE BigMulLimbLoop(_, _, _, _)
BigMulLimbLoop(a, m, i, carry) ==
  IF i > Len(a) THEN (IF carry = 0 THEN << >> ELSE << carry >>)
  ELSE << (a[i] * m + carry) % Limb >> \o BigMulLimbLoop(a, m, i + 1, (a[i] * m + carry) \div Limb)
BigMulLimb(a, m) == IF m = 0 THEN << >> ELSE BigMulLimbLoop(a, m, 1, 0)

ZeroLimbs(n) == [i \in 1 .. n |-> 0]
ShiftLimbs(a, n) == IF Len(a) = 0 THEN a ELSE ZeroLimbs(n) \o a

RECURSIVE BigMulLoop(_, _, _)
BigMulLoop(a, b, i) ==
  IF i > Len(b) THEN << >>
  ELSE BigAdd(ShiftLimbs(BigMulLimb(a, b[i]), i - 1), BigMulLoop(a, b, i + 1))
BigMul(a, b) == BigMulLoop(a, b, 1)

\* a * 2^n
BigShl(a, n) == ShiftLimbs(BigMulLimb(a, 2 ^ (n % 13)), n \div 13)

\* floor(a / d) for a limb d > 0, from the top limb down
RECURSIVE BigDivLimbLoop(_, _, _, _)
BigDivLimbLoop(a, d, i, rem) ==
  IF i = 0 THEN << >>
  ELSE BigDivLimbLoop(a, d, i - 1, (rem * Limb + a[i]) % d) \o << (rem * Limb + a[i]) \div d >>
BigDivLimb(a, d) == BigNorm(BigDivLimbLoop(a, d, Len(a), 0))

\* floor(a / 2^n)
BigShr(a, n) ==
  IF n \div 13 >= Len(a) THEN << >>
  ELSE BigDivLimb(SubSeq(a, n \div 13 + 1, Len(a)), 2 ^ (n % 13))

RECURSIVE IntBitLen(_)
IntBitLen(n) == IF n = 0 THEN 0 ELSE 1 + IntBitLen(n \div 2)
BitLen(a) == IF Len(a) = 0 THEN 0 ELSE 13 * (Len(a) - 1) + IntBitLen(a[Len(a)])
BitAt(a, i) == (LimbAt(a, i \div 13 + 1) \div (2 ^ (i % 13))) % 2

\* the number of zero bits below the lowest set bit of a # 0
RECURSIVE TrailingZeros(_, _)
TrailingZeros(a, i) == IF BitAt(a, i) = 1 THEN i ELSE TrailingZeros(a, i + 1)

\* The steps of a long division by d: each doubles the remainder, subtracts d
\* when it fits and appends the bit to the quotient.  << quotient, remainder >>
RECURSIVE BigDivSteps(_, _, _, _)
BigDivSteps(d, steps, q, rem) ==
  IF steps = 0 THEN << q, rem >>
  ELSE IF Len(q) >= 0 /\ BigCmp(BigAdd(rem, rem), d) >= 0
       THEN BigDivSteps(d, steps - 1, BigAdd(BigAdd(q, q), << 1 >>), BigSub(BigAdd(rem, rem), d))
       ELSE BigDivSteps(d, steps - 1, BigAdd(q, q), BigAdd(rem, rem))

f64Zero == [neg |-> FALSE, man |-> << >>, exp |-> 0]

\* the double of value (-1)^neg * m * 2^e for m below 2^53, in its one form
f64Canon(neg, m, e) ==
  IF Len(m) = 0 THEN f64Zero
  ELSE LET tz == TrailingZeros(m, 0)
       IN  [neg |-> neg, man |-> BigShr(m, tz), exp |-> e + tz]

\* round to nearest, ties to even
f64Round(neg, m, e) ==
  IF BitLen(m) <= Precision THEN f64Canon(neg, m, e)
  ELSE LET sh == BitLen(m) - Precision
           q == BigShr(m, sh)
           rest == BigSub(m, BigShl(q, sh))
           half == BigCmp(rest, BigShl(<< 1 >>, sh - 1))
           up == half > 0 \/ (half = 0 /\ BitAt(q, 0) = 1)
       IN  f64Canon(neg, IF up THEN BigAdd(q, << 1 >>) ELSE q, e + sh)

f64OfInt(n) == f64Canon(n < 0, BigOfInt(IF n < 0 THEN -n ELSE n), 0)

\* -1, 0 or 1 as x < y, x = y or x > y
f64Cmp(x, y) ==
  LET e == IF x.exp < y.exp THEN x.exp ELSE y.exp
      mag == BigCmp(BigShl(x.man, x.exp - e), BigShl(y.man, y.exp - e))
  IN  IF Len(x.man) = 0 /\ Len(y.man) = 0 THEN 0
      ELSE IF x.neg /\ ~y.neg THEN -1
      ELSE IF ~x.neg /\ y.neg THEN 1
      ELSE IF x.neg THEN -mag ELSE mag

\* x + y
f64Add(x, y) ==
  LET e == IF x.exp < y.exp THEN x.exp ELSE y.exp
      mx == BigShl(x.man, x.exp - e)
      my == BigShl(y.man, y.exp - e)
  IN  IF Len(x.man) = 0 THEN y
      ELSE IF Len(y.man) = 0 THEN x
      ELSE IF x.neg = y.neg THEN f64Round(x.neg, BigAdd(mx, my), e)
      ELSE IF BigCmp(mx, my) >= 0 THEN f64Round(x.neg, BigSub(mx, my), e)
      ELSE f64Round(y.neg, BigSub(my, mx), e)

f64Neg(x) == IF Len(x.man) = 0 THEN x ELSE [x EXCEPT !.neg = ~x.neg]

\* x - y
f64Sub(x, y) == f64Add(x, f64Neg(y))

\* x * y
f64Mul(x, y) == f64Round(x.neg # y.neg, BigMul(x.man, y.man), x.exp + y.exp)

\* x / y for y # 0.  Both mantissas are brought to 53 bits, so that the quotient
\* of the mantissas lies between 1/2 and 2; it is computed to 55 fraction bits
\* and a sticky bit for the remainder, then rounded.
f64Div(x, y) ==
  IF Len(x.man) = 0 THEN f64Zero
  ELSE LET sx == Precision - BitLen(x.man)
           sy == Precision - BitLen(y.man)
           mx == BigShl(x.man, sx)
           my == BigShl(y.man, sy)
           first == IF BigCmp(mx, my) >= 0 THEN << << 1 >>, BigSub(mx, my) >>
                    ELSE << << >>, mx >>
           qr == BigDivSteps(my, Precision + 2, first[1], first[2])
           sticky == IF Len(qr[2]) = 0 THEN << >> ELSE << 1 >>
       IN  f64Round(x.neg # y.neg, BigAdd(BigAdd(qr[1], qr[1]), sticky),
                    (x.exp - sx) - (y.exp - sy) - (Precision + 2) - 1)

\* Math.floor(x) for x >= 0, as an integer
f64Floor(x) == IF x.exp >= 0 THEN BigToInt(BigShl(x.man, x.exp)) ELSE BigToInt(BigShr(x.man, -x.exp))

\* A tail fraction of one half, in place of 0.30.
CVAR_ALPHA_Half == f64Div(f64OfInt(1), f64OfInt(2))

\* The literal 0.30: the double nearest to 3/10.
CVAR_ALPHA == f64Div(f64OfInt(3), f64OfInt(10))

\* The loop of chanceNode over the fullCount worst values.
RECURSIVE SumWorst(_, _, _, _)
SumWorst(values, i, fullCount, sum) ==
  IF i > fullCount THEN sum
  ELSE SumWorst(values, i + 1, fullCount, f64Add(sum, f64OfInt(values[i])))

\* The aggregation of chanceNode for `values` (integers) already pushed;
\* the result is a double.
chanceNodeF64(values) ==
  LET sorted == SortAscending(values, 1, << >>)
      k == f64Mul(CVAR_ALPHA, f64OfInt(Len(sorted)))
      fullCount == f64Floor(k)
      fractional == f64Sub(k, f64OfInt(fullCount))
      sum == SumWorst(sorted, 1, fullCount, f64Zero)
      sum2 == IF f64Cmp(fractional, f64Zero) > 0 /\ fullCount < Len(sorted)
              THEN f64Add(sum, f64Mul(fractional, f64OfInt(sorted[fullCount + 1])))
              ELSE sum
  IN  f64Div(sum2, k)

(***************************************************************************)
(* SpecCalls: the steps of expectimaxSelect that work on numbers alone,    *)
(* applied to candidate lists and branch values drawn from small ranges.   *)
(***************************************************************************)
\* An AfterState of phase 1, as far as the later phases read it; the
\* placement is the candidate's number in the enumeration.
CandidateMetrics == [leafScore : 0 .. MaxLeaf, holes : 0 .. MaxHoles, maxH : 0 .. MaxHoles]
CandidateLists ==
  UNION {{[i \in 1 .. n |-> [placement |-> i, leafScore |-> ms[i].leafScore,
                             holes |-> ms[i].holes, maxH |-> ms[i].maxH]] :
            ms \in [1 .. n -> CandidateMetrics]} : n \in 1 .. MaxCands}

\* Branch values are multiples of 31, the smallest positive integer v for which
\* seven branches of value v do not aggregate to v.
BranchValue(n) == 31 * n
BranchValues == [1 .. PIECE_COUNT -> {BranchValue(n) : n \in (-MaxBranch) .. MaxBranch}]

CallsInit ==
  /\ BoardVarsInit
  /\ RotVarsIdle
  /\ FeatVarsIdle
  /\ RndVarsIdle /\ BfsVarsIdle /\ WebVarsIdle
  /\ ClearVarsIdle
  /\ PlaceVarsIdle
  /\ PlanVarsIdle
  /\ GameVarsIdle
  /\ \/ \E candidates \in CandidateLists, depth \in 1 .. 2, nextPiece \in {Null, Some(PieceI)} :
          callArgs = [fn |-> "searchedCandidates", config |-> [depth |-> depth],
                      nextPiece |-> nextPiece, candidates |-> candidates]
     \/ \E values \in BranchValues : callArgs = [fn |-> "chanceNode", values |-> values]
  /\ callRet = Null

SearchCandidates ==
  /\ callArgs.fn = "searchedCandidates"
  /\ callRet = Null
  /\ callRet' = Some(searchedCandidates(callArgs.config, callArgs.nextPiece,
                                        callArgs.candidates))
  /\ UNCHANGED << callArgs, boardVars, clearVars, placeVars, planVars, gameVars, rotVars,
                  featVars, rndVars, bfsVars, webVars >>

\* The aggregation of chanceNode over the seven values its maxNode calls returned.
AggregateBranches ==
  /\ callArgs.fn = "chanceNode"
  /\ callRet = Null
  /\ callRet' = Some(chanceNodeF64(callArgs.values))
  /\ UNCHANGED << callArgs, boardVars, clearVars, placeVars, planVars, gameVars, rotVars,
                  featVars, rndVars, bfsVars, webVars >>

CallsNext ==
  \/ SearchCandidates
  \/ AggregateBranches

SpecCalls == CallsInit /\ [][CallsNext]_vars

(***************************************************************************)
(* SpecGame: a Game of either mode played by a planner, as the drivers do: *)
(* snapshot(), the planner with the game's own rotation and spawn          *)
(* functions, applyPlacement().  The pieces the randomizer generates are   *)
(* free.  A game is followed for MaxMoves placements.                      *)
(***************************************************************************)
GamePieces == {piece \in Pieces : piece < NumGamePieces}

GameInit ==
  /\ BoardVarsInit
  /\ RotVarsIdle
  /\ FeatVarsIdle
  /\ CallVarsIdle
  /\ RndVarsIdle /\ BfsVarsIdle /\ WebVarsIdle
  /\ ClearVarsIdle
  /\ PlaceVarsIdle
  /\ PlanVarsIdle
  /\ \E config \in GameConfigs, draw \in GamePieces : game = NewGame(config, draw)
  /\ pending = Null
  /\ lastMove = NoMove

\* A harness fills a cell of the new game's board, in the top visible row
\* (test/ai/beam-search.test.ts: game.board.set(x, y, true)).
PresetCell(x, y) ==
  /\ ~game.gameOver
  /\ pending = Null
  /\ game.piecesPlaced = 0
  /\ ~BoardGet(game.board, x, y)
  /\ Cardinality({i \in DOMAIN game.board.cells : game.board.cells[i] = 1}) < MaxPreset
  /\ game' = [game EXCEPT !.board = BoardSet(game.board, x, y, TRUE)]
  /\ UNCHANGED << pending, lastMove, notGameVars >>

\* The pieces ensureBuffer(previewCount) has to generate.
Fills(g) ==
  IF Len(g.buffer) >= g.config.previewCount THEN {<< >>}
  ELSE [1 .. (g.config.previewCount - Len(g.buffer)) -> GamePieces]

Peeked(g, fill) ==
  [g EXCEPT !.buffer = randomizerPeek(g.buffer, g.config.previewCount, fill).buffer]

CanPlan ==
  /\ ~game.gameOver
  /\ pending = Null
  /\ game.piecesPlaced < MaxMoves

PlanBeam(depth, beamWidth) ==
  /\ CanPlan
  /\ \E fill \in Fills(game) :
       /\ game' = Peeked(game, fill)
       /\ pending' = Some([by |-> "beam",
                           placement |->
                             beamSearchSelect(snapshot(game'), BCTS_WEIGHTS,
                                              [depth |-> depth, beamWidth |-> beamWidth],
                                              Some(game.config.rotationSystem))])
  /\ UNCHANGED << lastMove, notGameVars >>

PlanExpectimax(depth) ==
  /\ CanPlan
  /\ \E fill \in Fills(game) :
       /\ game' = Peeked(game, fill)
       /\ pending' = Some([by |-> "expectimax",
                           placement |->
                             expectimaxSelect(snapshot(game'), BCTS_WEIGHTS,
                                              [depth |-> depth],
                                              Some(game.config.rotationSystem))])
  /\ UNCHANGED << lastMove, notGameVars >>

\* The pieces generate() may yield in the n-th spawn() of applyPlacement: a
\* spawn() that finds the buffer filled generates nothing.
Draws(bufferLength) == IF bufferLength = 0 THEN GamePieces ELSE {PieceI}

ApplyPlacement ==
  /\ pending # Null
  /\ pending[1].placement # Null
  /\ LET placement == pending[1].placement[1]
         holdSpawns == placement.held /\ game.config.allowHold /\ ~game.holdUsed
                       /\ game.holdPiece = Null
         left == IF holdSpawns /\ Len(game.buffer) > 0 THEN Len(game.buffer) - 1
                 ELSE Len(game.buffer)
     IN  \E draw1 \in Draws(IF holdSpawns THEN Len(game.buffer) ELSE 1),
            draw2 \in Draws(left) :
           \E r \in {applyPlacement(game, placement, draw1, draw2)} :
             /\ game' = r.game
             /\ lastMove' = [by |-> pending[1].by, placement |-> pending[1].placement,
                             preBoard |-> game.board, preLines |-> game.linesCleared,
                             collided |-> r.collided, lockedOut |-> r.lockedOut,
                             locked |-> r.locked, result |-> r.result]
  /\ pending' = Null
  /\ UNCHANGED notGameVars

GameNext ==
  \/ \E x \in 0 .. (BoardW - 1) : PresetCell(x, VisibleH - 1)
  \/ PlanBeam(GameDepth, GameWidth)
  \/ PlanExpectimax(1)
  \/ ApplyPlacement

SpecGame == GameInit /\ [][GameNext]_vars

(***************************************************************************)
(* Claims on the board (SpecBoard).                                        *)
(***************************************************************************)
\* The height of column c read off the cells: one more than the largest
\* filled row, 0 for an empty column.
FilledRowsOf(cells, c) == {y \in 0 .. (TotalH - 1) : cells[y * BoardW + c] = 1}
TrueHeight(cells, c) ==
  IF FilledRowsOf(cells, c) = {} THEN 0
  ELSE 1 + CHOOSE y \in FilledRowsOf(cells, c) : \A z \in FilledRowsOf(cells, c) : z <= y
TrueMaxHeight(cells) ==
  CHOOSE h \in {TrueHeight(cells, c) : c \in 0 .. (BoardW - 1)} :
    \A c \in 0 .. (BoardW - 1) : TrueHeight(cells, c) <= h

\* C3: after any sequence of set / placePiece (with and without truncation) /
\* clearLines, getColumnHeight(c) is one more than the largest filled row of
\* column c (0 for an empty column) and getMaxHeight is the largest of them.
C3_HeightsMatchCells ==
  \A t \in Targets :
    /\ \A c \in 0 .. (BoardW - 1) :
         getColumnHeight(BoardOf(t), c) = TrueHeight(BoardOf(t).cells, c)
    /\ getMaxHeight(BoardOf(t)) = TrueMaxHeight(BoardOf(t).cells)

\* A clearLines that removed a row and left cells behind: some column came
\* down to height 1, another to 0.
C3_Witness ==
  /\ lastOp.op = "clearLines" /\ lastOp.ret = 1 /\ lastOp.target = "a"
  /\ \E c, d \in 0 .. (BoardW - 1) :
       /\ getColumnHeight(BoardOf("a"), c) = 1
       /\ getColumnHeight(BoardOf("a"), d) = 0

\* C4: clone() returns a board equal to its source in every cell and column
\* height and leaves the source as it was; afterwards an operation on either
\* board leaves the other board's cells and heights unchanged.
C4_CloneStep ==
  /\ (boardB = Null /\ boardB' # Null) =>
       /\ Deref(cellsMem', heightsMem', boardB'[1]) = Deref(cellsMem, heightsMem, boardA)
       /\ Deref(cellsMem', heightsMem', boardA') = Deref(cellsMem, heightsMem, boardA)
  /\ (boardB # Null /\ boardB' # Null) =>
       /\ lastOp'.target = "a" =>
            Deref(cellsMem', heightsMem', boardB'[1]) = Deref(cellsMem, heightsMem, boardB[1])
       /\ lastOp'.target = "b" =>
            Deref(cellsMem', heightsMem', boardA') = Deref(cellsMem, heightsMem, boardA)
C4_CloneIndependent == [][C4_CloneStep]_vars

\* An operation on the clone has made it differ from its source.
C4_Witness ==
  /\ boardB # Null
  /\ lastOp.op \in {"set", "placePiece", "clearLines"}
  /\ lastOp.target = "b"
  /\ BoardOf("a").cells # BoardOf("b").cells

(***************************************************************************)
(* Claims on clearLines (SpecClear).                                       *)
(***************************************************************************)
RowIsFull(cells, r) == \A x \in 0 .. (BoardW - 1) : cells[r * BoardW + x] = 1
RowIsEmpty(cells, r) == \A x \in 0 .. (BoardW - 1) : cells[r * BoardW + x] = 0
FullRowsOf(cells) == {r \in 0 .. (TotalH - 1) : RowIsFull(cells, r)}
KeptRowsOf(cells) == (0 .. (TotalH - 1)) \ FullRowsOf(cells)
\* The row of the pre-clear board that ends at row w: the kept row with
\* exactly w kept rows below it.
SourceRow(cells, w) ==
  CHOOSE r \in KeptRowsOf(cells) : Cardinality({q \in KeptRowsOf(cells) : q < r}) = w

\* C5: clearLines removes exactly the full rows, returns their count and
\* their pre-clear indices in ascending order, keeps the other rows in order
\* moved down onto the freed rows, leaves the top count rows empty; afterwards
\* no row is full and the filled cells have dropped by count * width.
C5_ClearLinesExact ==
  clearRet # Null =>
    LET ret == clearRet[1]
        post == clearBoard.cells
        kept == Cardinality(KeptRowsOf(clearPre))
    IN  /\ ret.count = Cardinality(FullRowsOf(clearPre))
        /\ Len(ret.rows) = ret.count
        /\ {ret.rows[i] : i \in 1 .. Len(ret.rows)} = FullRowsOf(clearPre)
        /\ \A i \in 1 .. (Len(ret.rows) - 1) : ret.rows[i] < ret.rows[i + 1]
        /\ \A w \in 0 .. (kept - 1) : \A x \in 0 .. (BoardW - 1) :
             post[w * BoardW + x] = clearPre[SourceRow(clearPre, w) * BoardW + x]
        /\ \A w \in kept .. (TotalH - 1) : RowIsEmpty(post, w)
        /\ kept = TotalH - ret.count
        /\ FullRowsOf(post) = {}
        /\ FilledCount(post) = FilledCount(clearPre) - ret.count * BoardW

\* Two separated full rows were removed and a partial row between them came
\* down to row 0.
C5_Witness ==
  /\ clearRet # Null
  /\ clearRet[1].rows = << 0, 2 >>
  /\ ~RowIsEmpty(clearBoard.cells, 0)

(***************************************************************************)
(* Claims on generatePlacements (SpecPlace).                               *)
(***************************************************************************)
\* The five single-step moves, as a relation on non-colliding states.
MovesFrom(b, piece, rotateFn, s) ==
  {St(s.x + d[1], s.y + d[2], s.rotation) :
     d \in {e \in {<< 0, -1 >>, << -1, 0 >>, << 1, 0 >>} :
              ~Collides(b, piece, s.rotation, s.x + e[1], s.y + e[2])}}
  \cup {r[1] : r \in {CallRotate(rotateFn, b, piece, s.rotation, dir, s.x, s.y) :
                        dir \in {1, -1}} \ {Null}}

RECURSIVE ReachClosure(_, _, _, _, _)
ReachClosure(b, piece, rotateFn, seen, frontier) ==
  IF frontier = {} THEN seen
  ELSE LET fresh == UNION {MovesFrom(b, piece, rotateFn, s) : s \in frontier} \ seen
       IN  ReachClosure(b, piece, rotateFn, seen \cup fresh, fresh)

plSpawn == ModeSpawnPos(plMode, plPiece, BoardW, VisibleH)
plSpawnState == St(plSpawn.x, plSpawn.y, ModeSpawnRot(plMode, plPiece))
plSpawnCollides == Collides(plBoard, plPiece, plSpawnState.rotation, plSpawn.x, plSpawn.y)

\* The states reachable from the spawn state, the spawn state included when
\* it does not collide.
plReachable ==
  IF plSpawnCollides THEN {}
  ELSE ReachClosure(plBoard, plPiece, ModeRotate(plMode), {plSpawnState}, {plSpawnState})

plGrounded ==
  {s \in plReachable : Collides(plBoard, plPiece, s.rotation, s.x, s.y - 1)}

C2_PlacementsRest ==
  plOut # Null =>
    \A i \in 1 .. Len(plOut[1]) :
      LET pl == plOut[1][i]
      IN  /\ ~Collides(plBoard, pl.piece, pl.rotation, pl.x, pl.y)
          /\ Collides(plBoard, pl.piece, pl.rotation, pl.x, pl.y - 1)

\* A returned placement rests on a filled cell, not on the floor.
C2_Witness ==
  /\ plOut # Null
  /\ \E i \in 1 .. Len(plOut[1]) :
       LET pl == plOut[1][i]
       IN  /\ \A k \in 1 .. 4 : pl.y + PIECE_CELLS(pl.piece, pl.rotation)[k].y >= 1
           /\ FilledCount(plBoard.cells) > 0

lastSimulated ==
  LET p == lastMove.placement[1]
  IN  simulatePlacement(lastMove.preBoard, p.piece, p.rotation, p.x, p.y, Some(VisibleH),
                        IF game.config.truncateLock THEN Some(VisibleH) ELSE Null)

\* C6: when a game that is not over applies the placement p that beam search
\* or expectimax returned for its snapshot, the collision re-check passes, the
\* lock does not end in lock-out, the piece locked is p.piece at (p.x, p.y) in
\* rotation p.rotation, and the game's board and the growth of its
\* lines-cleared count are those of simulatePlacement's afterstate for p.
C6_AppliedAsSimulated ==
  lastMove.by # "none" =>
    LET p == lastMove.placement[1]
    IN  /\ ~lastMove.collided
        /\ ~lastMove.lockedOut
        /\ lastMove.locked = Some([piece |-> p.piece, rotation |-> p.rotation,
                                   x |-> p.x, y |-> p.y])
        /\ lastSimulated # Null
        /\ game.board = lastSimulated[1].board
        /\ game.linesCleared - lastMove.preLines = lastSimulated[1].linesCleared

\* A held placement of beam search was applied and cleared a line.
C6_Witness ==
  /\ lastMove.by = "beam"
  /\ lastMove.placement[1].held
  /\ lastMove.locked # Null
  /\ game.linesCleared > lastMove.preLines

(***************************************************************************)
(* Claims on the planners (SpecPlan).                                      *)
(***************************************************************************)
\* The snapshot's current piece collides at the spawn state of the snapshot's
\* rotation system.
planSpawnCollides ==
  LET pos == ModeSpawnPos(planSnap.rotationSystem, planSnap.currentPiece, BoardW,
                          planSnap.height)
  IN  Collides(planSnap.board, planSnap.currentPiece,
               ModeSpawnRot(planSnap.rotationSystem, planSnap.currentPiece), pos.x, pos.y)

\* C7: beam search with beamWidth = 1 and depth = 1 returns what the greedy
\* planner returns on the same snapshot: both null, or the same placement
\* (piece, rotation, x, y, held).
C7_BeamOneOneIsGreedy ==
  (planBy = "beam" /\ planCfg.depth = 1 /\ planCfg.beamWidth = 1) =>
    planOut = greedySelect(planSnap, BCTS_WEIGHTS)

\* C8: expectimax with depth = 1 returns what the greedy planner returns on the
\* same snapshot, hold allowed and unused or not.
C8_ExpectimaxOneIsGreedy ==
  (planBy = "expectimax" /\ planCfg.depth = 1) =>
    planOut = greedySelect(planSnap, BCTS_WEIGHTS)

\* C9: a planner called on a snapshot whose current piece collides at its spawn
\* state returns null.
C9_NullOnSpawnCollision ==
  (planBy # "none" /\ planSpawnCollides) => planOut = Null


(***************************************************************************)
(* C11: beamSearchSelect called with beamWidth <= 0 returns what it        *)
(* returns with beamWidth = 1 on the same snapshot and depth; so it        *)
(* returns a placement whenever a legal placement exists.                  *)
(***************************************************************************)
C11_NonPositiveWidthIsOne ==
  (planBy = "beam" /\ planCfg.beamWidth <= 0) =>
    planOut = beamSearchSelect(planSnap, BCTS_WEIGHTS,
                               [depth |-> planCfg.depth, beamWidth |-> 1], Null)

(***************************************************************************)
(* C12: a planner (beamSearchSelect, beamSearch, expectimaxSelect) called  *)
(* with depth <= 0 returns what it returns with depth = 1 on the same      *)
(* snapshot.                                                               *)
(***************************************************************************)
C12_NonPositiveDepthIsOne ==
  planCfg.depth <= 0 =>
    /\ planBy = "beam" =>
         planOut = beamSearchSelect(planSnap, BCTS_WEIGHTS,
                                    [depth |-> 1, beamWidth |-> planCfg.beamWidth], Null)
    /\ planBy = "beamSearch" =>
         planOut = beamSearch(planSnap, BCTS_WEIGHTS,
                              [width |-> planCfg.beamWidth, depth |-> 1])
    /\ planBy = "expectimax" =>
         planOut = expectimaxSelect(planSnap, BCTS_WEIGHTS, [depth |-> 1], Null)

(***************************************************************************)
(* C20: after every level of beam search at most beamWidth candidates      *)
(* survive, and they are the beamWidth candidates generated at that level  *)
(* that come first when ordered by larger score, then by earlier           *)
(* discovery.  The levels of the call recorded in the state are            *)
(* recomputed: level 0 from the snapshot, level 1 from the survivors of    *)
(* level 0.  The width is a count here; C11 is about the widths below 1.   *)
(***************************************************************************)
\* Candidate i comes before candidate j: larger score, or the same score and
\* discovered earlier.
ComesBefore(gen, i, j) ==
  \/ gen[i].score > gen[j].score
  \/ gen[i].score = gen[j].score /\ i < j

TopIndices(gen, width) ==
  {i \in 1 .. Len(gen) :
     Cardinality({j \in 1 .. Len(gen) : ComesBefore(gen, j, i)}) < width}

Occurrences(s, v) == Cardinality({k \in 1 .. Len(s) : s[k] = v})

SurvivorsAreTop(gen, kept, width) ==
  /\ Len(kept) <= width
  /\ Len(kept) = Cardinality(TopIndices(gen, width))
  /\ \A i \in TopIndices(gen, width) :
       Occurrences(kept, gen[i])
         = Cardinality({k \in TopIndices(gen, width) : gen[k] = gen[i]})

planTruncAbove == IF planSnap.truncateLock THEN Some(planSnap.height) ELSE Null
planLevel0 == beamRoot(planSnap, BCTS_WEIGHTS, "srs")
planKept0 == pruneBeam(planLevel0, planCfg.beamWidth)
planHasLevel1 ==
  /\ Len(planLevel0) > 0
  /\ planCfg.depth >= 2
  /\ Len(planSnap.preview) >= 1
planLevel1 ==
  BeamExpandAll(planKept0, planSnap, BCTS_WEIGHTS, "srs", planSnap.height,
                planSnap.initialDrop, planTruncAbove)

C20_SurvivorsAreTopByScore ==
  (planBy = "beam" /\ planCfg.beamWidth >= 1) =>
    \E gen0 \in {planLevel0} :
      /\ SurvivorsAreTop(gen0, pruneBeam(gen0, planCfg.beamWidth), planCfg.beamWidth)
      /\ planHasLevel1 =>
           \E gen1 \in {planLevel1} :
             Len(gen1) > 0 =>
               SurvivorsAreTop(gen1, pruneBeam(gen1, planCfg.beamWidth),
                               planCfg.beamWidth)

\* A level that generated more than beamWidth candidates, two of equal score
\* on either side of the cut.
CutSplitsTie(gen, width) ==
  \E i \in TopIndices(gen, width), j \in 1 .. Len(gen) :
    j \notin TopIndices(gen, width) /\ gen[i].score = gen[j].score

C20_Witness ==
  /\ planBy = "beam"
  /\ planCfg.beamWidth >= 1
  /\ planHasLevel1
  /\ \E gen0 \in {planLevel0} : CutSplitsTie(gen0, planCfg.beamWidth)
  /\ \E gen1 \in {planLevel1} :
       Len(gen1) > planCfg.beamWidth /\ CutSplitsTie(gen1, planCfg.beamWidth)
(***************************************************************************)
(* The rotation systems (SpecRotate).                                      *)
(***************************************************************************)
\* The entries of a kick list at which the rotated piece is free.
FreeKicks(b, piece, target, x, y, kicks) ==
  {i \in 1 .. Len(kicks) : ~Collides(b, piece, target, x + kicks[i].x, y + kicks[i].y)}

\* What the claim lets tryRotate return for a call.
KickedResult(b, piece, call) ==
  LET target == (call.fromRot + call.direction + 4) % 4
      kicks == IF piece = PieceI THEN I_KICKS(call.fromRot, target)
               ELSE JLSTZ_KICKS(call.fromRot, target)
      free == FreeKicks(b, piece, target, call.x, call.y, kicks)
  IN  IF piece = PieceO THEN Some([x |-> call.x, y |-> call.y, rotation |-> target])
      ELSE IF free = {} THEN Null
      ELSE LET first == MinOf(free)
           IN  Some([x |-> call.x + kicks[first].x, y |-> call.y + kicks[first].y,
                     rotation |-> target])

\* C13: the kick-based tryRotate targets rotation (from + dir) mod 4 and
\* returns the position shifted by the first entry, in table order, of the
\* (from -> target) kick list at which the piece does not collide, Null
\* exactly when it collides at every entry; the I piece reads its own table,
\* J, L, S, T and Z the shared one, and the O piece turns in place.
C13_FirstFreeKickWins ==
  (lastRotate # Null /\ game.config.rotationSystem = "srs") =>
    lastRotate[1].result = KickedResult(game.board, game.currentPiece, lastRotate[1])

\* A rotation of the I piece that got through on a later entry of its list
\* where the first entry collides.
C13_Witness ==
  /\ lastRotate # Null
  /\ game.config.rotationSystem = "srs"
  /\ game.currentPiece = PieceI
  /\ lastRotate[1].result # Null
  /\ << lastRotate[1].result[1].x, lastRotate[1].result[1].y >>
       # << lastRotate[1].x, lastRotate[1].y >>

\* C14: the no-kick tryRotateNRS succeeds exactly when the target rotation
\* state is free at the unchanged (x, y), a success returns the x and y it was
\* given, and a collision of the target state returns Null whatever the
\* kick-based tryRotate would find for the same call.
C14_NoKickRotation ==
  (lastRotate # Null /\ game.config.rotationSystem = "nrs" /\ game.currentPiece # PieceO) =>
    \E call \in {lastRotate[1]} :
      \E target \in {nrsNextRotation(game.currentPiece, call.fromRot, call.direction)[1]} :
        /\ call.result # Null <=> ~Collides(game.board, game.currentPiece, target, call.x, call.y)
        /\ call.result # Null =>
             call.result[1] = [x |-> call.x, y |-> call.y, rotation |-> target]

\* A no-kick rotation that failed where tryRotate, called with the same
\* arguments, reaches the same rotation state through an offset.
C14_Witness ==
  /\ lastRotate # Null
  /\ game.config.rotationSystem = "nrs"
  /\ game.currentPiece # PieceO
  /\ lastRotate[1].result = Null
  /\ \E call \in {lastRotate[1]} :
       \E kicked \in {tryRotate(game.board, game.currentPiece, call.fromRot, call.direction,
                                call.x, call.y)} :
         /\ kicked # Null
         /\ kicked[1].rotation
              = nrsNextRotation(game.currentPiece, call.fromRot, call.direction)[1]
         /\ << kicked[1].x, kicked[1].y >> # << call.x, call.y >>

\* The rotation states one more tryRotateNRS call, in either direction, adds
\* to `seen` for a piece in the corner of an empty board.
NRSStep(piece, seen) ==
  seen \cup {r \in Rotations :
               \E from \in seen, direction \in {1, -1} :
                 tryRotateNRS(EmptyBoard, piece, from, direction, 0, 0)
                   = Some([x |-> 0, y |-> 0, rotation |-> r])}

\* The states repeated rotation takes a piece through from its spawn rotation.
NRSOrbit(piece) ==
  NRSStep(piece, NRSStep(piece, NRSStep(piece, NRSStep(piece, {NRS_SPAWN_ROTATION(piece)}))))

NRSToggling == {piece \in Pieces : Cardinality(NRSOrbit(piece)) = 2}
NRSCycling == {piece \in Pieces : NRSOrbit(piece) = Rotations}

\* What rotate does, under the no-kick rules, to the piece of this game.
NRSGameFollowsOrbit ==
  /\ game.currentRotation \in NRSOrbit(game.currentPiece)
  /\ (game.currentPiece = PieceO /\ lastRotate # Null) => lastRotate[1].result = Null

\* C15: under the no-kick rotation system the O piece never rotates, three
\* of the seven pieces (I, S, Z) toggle between exactly two rotation states,
\* and each of the remaining three pieces (T, J, L) passes through all four
\* rotation states under repeated rotation on an empty board.
C15_ThreeToggleThreeCycle ==
  game.config.rotationSystem = "nrs" =>
    /\ NRSGameFollowsOrbit
    /\ NRSOrbit(PieceO) = {R0}
    /\ Cardinality(NRSToggling) = 3
    /\ NRSToggling = {PieceI, PieceS, PieceZ}
    /\ NRSCycling = Pieces \ (NRSToggling \cup {PieceO})
    /\ Cardinality(NRSCycling) = 3

\* C15 as it was stated: exactly two pieces toggle and the remaining four
\* pass through all four states.
C15_TwoToggleFourCycle ==
  game.config.rotationSystem = "nrs" =>
    /\ NRSGameFollowsOrbit
    /\ NRSOrbit(PieceO) = {R0}
    /\ Cardinality(NRSToggling) = 2
    /\ NRSCycling = Pieces \ (NRSToggling \cup {PieceO})
    /\ Cardinality(NRSCycling) = 4

\* On an empty board a T, J or L piece has been turned clockwise back into
\* its spawn rotation, coming from the state three steps away from it.
C15_Witness ==
  /\ game.config.rotationSystem = "nrs"
  /\ game.board = EmptyBoard
  /\ game.currentPiece \in {PieceT, PieceJ, PieceL}
  /\ lastRotate # Null
  /\ lastRotate[1].direction = 1
  /\ lastRotate[1].fromRot = (NRS_SPAWN_ROTATION(game.currentPiece) + 3) % 4
  /\ lastRotate[1].result # Null
  /\ game.currentRotation = NRS_SPAWN_ROTATION(game.currentPiece)

\* The rotation labels the no-kick rules leave to a piece.
NRSLabels(piece) ==
  IF piece = PieceO THEN {R0}
  ELSE IF piece = PieceI THEN {R0, R1}
  ELSE IF piece \in {PieceS, PieceZ} THEN {R1, R2}
  ELSE Rotations

\* The rotation labels of the placements generatePlacements returned.
plLabels == {plOut[1][i].rotation : i \in 1 .. Len(plOut[1])}

FeatureVectorFields ==
  << "landingHeight2", "erodedPieceCells", "rowTransitions", "colTransitions", "holes",
     "cumulativeWells", "holeDepth", "rowsWithHoles" >>

RECURSIVE WeightedSum(_, _, _)
\* weights[i] times field i, from field i on, on the scale of evaluate.
WeightedSum(features, weights, i) ==
  IF i > Len(FeatureVectorFields) THEN 0
  ELSE (IF i = 1 THEN 1 ELSE 2) * weights[i] * features[FeatureVectorFields[i]]
       + WeightedSum(features, weights, i + 1)

\* C17: evaluate(features, weights) is the sum over i of weights[i] times the
\* i-th field of the FeatureVector in the order landingHeight,
\* erodedPieceCells, rowTransitions, colTransitions, holes, cumulativeWells,
\* holeDepth, rowsWithHoles; the weight vector has as many entries as the
\* FeatureVector has fields, and every field evaluate reads is a field that
\* extractFeatures produced.
C17_EvaluateIsWeightedSum ==
  featScore # Null =>
    /\ Len(featScore[1].weights) = Len(FeatureVectorFields)
    /\ \A i \in DOMAIN featScore[1].reads : featScore[1].reads[i] \in DOMAIN featOut[1]
    /\ featScore[1].value = Num(WeightedSum(featOut[1], featScore[1].weights, 1))

\* The filled/empty changes along row y between the left wall, the cells and
\* the right wall, both walls filled.
RowChanges(board, y) ==
  LET at == [x \in -1 .. BoardW |->
               IF x = -1 \/ x = BoardW THEN TRUE ELSE BoardGet(board, x, y)]
  IN  Cardinality({x \in -1 .. (BoardW - 1) : at[x] # at[x + 1]})

\* The height of the tallest column: one more than the highest filled row.
TallestColumn(board) ==
  LET rows == {y \in 0 .. (board.totalHeight - 1) :
                 \E x \in 0 .. (BoardW - 1) : BoardGet(board, x, y)}
  IN  IF rows = {} THEN 0 ELSE MaxOf(rows) + 1

RECURSIVE SumOver(_, _)
\* The sum of f over the finite set S.
SumOver(f, S) ==
  IF S = {} THEN 0
  ELSE LET z == CHOOSE z \in S : TRUE
       IN  f[z] + SumOver(f, S \ {z})

\* C18: extractFeatures computes rowTransitions as the number of filled/empty
\* changes between horizontally adjacent positions, summed over every row
\* below the tallest column height, with the positions just left of column 0
\* and just right of the last column counted as filled; a row whose only
\* filled cell is in column 0 contributes 2.
C18_RowTransitionsWithWalls ==
  featOut # Null =>
    \E rows \in {0 .. (TallestColumn(featIn.board) - 1)} :
      featOut[1].rowTransitions
        = SumOver([y \in rows |-> RowChanges(featIn.board, y)], rows)

\* The height of column x: one more than its highest filled row.
ColumnTop(board, x) ==
  LET rows == {y \in 0 .. (board.totalHeight - 1) : BoardGet(board, x, y)}
  IN  IF rows = {} THEN 0 ELSE MaxOf(rows) + 1

\* The depth of the well at column x, a missing neighbour being a wall
\* taller than any column.
WellDepth(board, x) ==
  LET wall == board.totalHeight + 1
      leftH == IF x = 0 THEN wall ELSE ColumnTop(board, x - 1)
      rightH == IF x = BoardW - 1 THEN wall ELSE ColumnTop(board, x + 1)
      d == (IF leftH < rightH THEN leftH ELSE rightH) - ColumnTop(board, x)
  IN  IF d > 0 THEN d ELSE 0

\* C19: extractFeatures computes cumulativeWells as the sum over all columns
\* of d * (d + 1) / 2 with d = max(0, min(leftHeight, rightHeight) -
\* ownHeight), the missing neighbour of an edge column being a wall taller
\* than any column, so that an edge column's depth is max(0,
\* innerNeighbourHeight - ownHeight).
C19_CumulativeWells ==
  featOut # Null =>
    \E columns \in {0 .. (BoardW - 1)} :
      /\ featOut[1].cumulativeWells
           = SumOver([x \in columns |->
                        (WellDepth(featIn.board, x) * (WellDepth(featIn.board, x) + 1)) \div 2],
                     columns)
      /\ \A edge \in {<< 0, 1 >>, << BoardW - 1, BoardW - 2 >>} :
           \E inner \in {ColumnTop(featIn.board, edge[2]) - ColumnTop(featIn.board, edge[1])} :
             WellDepth(featIn.board, edge[1]) = IF inner > 0 THEN inner ELSE 0

\* Features extracted from a board with a well of depth two or more at the
\* left edge and a well between two inner neighbours.
C19_Witness ==
  /\ featOut # Null
  /\ WellDepth(featIn.board, 0) >= 2
  /\ \E x \in 1 .. (BoardW - 2) : WellDepth(featIn.board, x) >= 1
  /\ featOut[1].cumulativeWells >= 4

(***************************************************************************)
(* SpecRandom: a randomizer made by createRandomizer, drawn from and       *)
(* peeked at in any order; at some point it is cloned and the clone is     *)
(* drawn from, in any order with the calls on the original.                *)
(***************************************************************************)
Seeds == {42 * n : n \in 0 .. (NumSeeds - 1)}
PeekCounts == {0, 3, PIECE_COUNT + 2}

RandomInit ==
  /\ BoardVarsInit
  /\ RotVarsIdle
  /\ FeatVarsIdle
  /\ CallVarsIdle
  /\ ClearVarsIdle
  /\ PlaceVarsIdle
  /\ PlanVarsIdle
  /\ GameVarsIdle
  /\ BfsVarsIdle /\ WebVarsIdle
  /\ \E type \in {"uniform", "bag7"}, seed \in Seeds : rnd = createRandomizer(type, seed)
  /\ rndClone = Null
  /\ rndRet = Null
  /\ rndLog = NoDraws

\* The calls of peek and clone made on the original.
SideCalls == rndLog.peeks + (IF rndClone = Null THEN 0 ELSE 1)

\* next() on the original
Next ==
  /\ Len(rndLog.drawn) < MaxDraws
  /\ \E r \in {next(rnd)} :
       /\ rnd' = r.rnd
       /\ rndRet' = Null
       /\ rndLog' = [rndLog EXCEPT
                       !.drawn = Append(@, r.piece),
                       !.due = IF Len(rndLog.promised) > 0 THEN rndLog.promised[1] ELSE {},
                       !.promised = IF Len(@) > 0 THEN Tail(@) ELSE @]
  /\ UNCHANGED << rndClone, notRndVars >>

\* peek(count) on the original
Peek(count) ==
  /\ SideCalls < MaxSideCalls
  /\ \E r \in {peek(rnd, count)} :
       /\ rnd' = r.rnd
       /\ rndRet' = Some([count |-> count, pieces |-> r.pieces])
       /\ rndLog' = [rndLog EXCEPT
                       !.peeks = @ + 1,
                       !.due = {},
                       !.promised =
                         [i \in 1 .. (IF Len(@) > Len(r.pieces) THEN Len(@)
                                      ELSE Len(r.pieces)) |->
                            (IF i <= Len(@) THEN @[i] ELSE {})
                            \cup (IF i <= Len(r.pieces) THEN {r.pieces[i]} ELSE {})]]
  /\ UNCHANGED << rndClone, notRndVars >>

\* clone() on the original
Clone ==
  /\ rndClone = Null
  /\ SideCalls < MaxSideCalls
  /\ rndClone' = Some(cloneRandomizer(rnd))
  /\ rndRet' = Null
  /\ rndLog' = [rndLog EXCEPT !.clonedAt = Len(rndLog.drawn), !.due = {}]
  /\ UNCHANGED << rnd, notRndVars >>

\* next() on the clone
CloneNext ==
  /\ rndClone # Null
  /\ Len(rndLog.cloneDrawn) < MaxCloneDraws
  /\ \E r \in {next(rndClone[1])} :
       /\ rndClone' = Some(r.rnd)
       /\ rndRet' = Null
       /\ rndLog' = [rndLog EXCEPT !.cloneDrawn = Append(@, r.piece), !.due = {}]
  /\ UNCHANGED << rnd, notRndVars >>

RandomNext ==
  \/ Next
  \/ \E count \in PeekCounts : Peek(count)
  \/ Clone
  \/ CloneNext

SpecRandom == RandomInit /\ [][RandomNext]_vars

(***************************************************************************)
(* SpecAnim: generatePlacements on a board for a piece, then planAnimation *)
(* for one of the placements it returned, with the rotation function, the  *)
(* spawn and the drop options the callers pass together.                   *)
(***************************************************************************)
\* planAnimation(board, placement, W, H) as the tests call it; useGameLoop's
\* call in modern mode (also useBackgroundGame's); useGameLoop's call in
\* classic mode.
AnimOptions ==
  {[rotateFn |-> "srs", hasHardDrop |-> TRUE, initialDrop |-> FALSE],
   [rotateFn |-> "srs", hasHardDrop |-> TRUE, initialDrop |-> TRUE],
   [rotateFn |-> "nrs", hasHardDrop |-> FALSE, initialDrop |-> FALSE]}

AnimInit ==
  /\ BoardVarsInit
  /\ RotVarsIdle
  /\ FeatVarsIdle
  /\ RndVarsIdle /\ BfsVarsIdle /\ WebVarsIdle
  /\ ClearVarsIdle
  /\ PlanVarsIdle
  /\ GameVarsIdle
  /\ \E filled \in SUBSET (0 .. (VisibleH * BoardW - 1)) :
       /\ Cardinality(filled) <= MaxAnimFilled
       /\ plBoard = BoardOfCells(filled, TotalH)
  /\ plPiece \in Pieces
  /\ \E o \in AnimOptions :
       /\ plMode = o.rotateFn
       /\ callArgs = [fn |-> "none", hasHardDrop |-> o.hasHardDrop,
                      initialDrop |-> o.initialDrop]
  /\ plOut = Null
  /\ callRet = Null

\* The spawn state the piece is controlled from: the spawn position, one
\* row lower with initialDrop when that row is free.
AnimSpawn(b, piece, mode, initialDrop) ==
  LET raw == ModeSpawnPos(mode, piece, BoardW, VisibleH)
      rot == ModeSpawnRot(mode, piece)
  IN  St(raw.x,
         IF initialDrop /\ ~Collides(b, piece, rot, raw.x, raw.y - 1) THEN raw.y - 1
         ELSE raw.y,
         rot)

\* The planner's call of generatePlacements (beam.ts 150, expectimax.ts 96).
AnimGenerate ==
  /\ plOut = Null
  /\ LET raw == ModeSpawnPos(plMode, plPiece, BoardW, VisibleH)
         s == AnimSpawn(plBoard, plPiece, plMode, callArgs.initialDrop)
     IN  plOut' = Some(IF Collides(plBoard, plPiece, s.rotation, raw.x, raw.y) THEN << >>
                       ELSE generatePlacements(plBoard, plPiece, s.x, s.y,
                                               ModeRotate(plMode), s.rotation))
  /\ UNCHANGED << plBoard, plPiece, plMode, callVars, notPlaceVars >>

\* planAnimation for one of the placements returned.
PlanAnimation ==
  /\ plOut # Null
  /\ callArgs.fn = "none"
  /\ \E i \in DOMAIN plOut[1] :
       /\ callArgs' = [callArgs EXCEPT !.fn = "planAnimation"] @@ [placement |-> plOut[1][i]]
       /\ callRet' = Some(planAnimation(plBoard, plOut[1][i], BoardW, VisibleH,
                                        ModeRotate(plMode), ModeSpawnRot(plMode, plPiece),
                                        plMode, callArgs.hasHardDrop, callArgs.initialDrop))
  /\ UNCHANGED << placeVars, boardVars, clearVars, planVars, gameVars, rotVars, featVars,
                  rndVars, bfsVars, webVars >>

AnimNext ==
  \/ AnimGenerate
  \/ PlanAnimation

SpecAnim == AnimInit /\ [][AnimNext]_vars

(***************************************************************************)
(* SpecOps: every public operation of Game on one game: the operations of  *)
(* SpecHold together with moveDown() and rotate().                         *)
(***************************************************************************)
\* moveDown()
SoftDrop ==
  /\ ~game.gameOver
  /\ game.piecesPlaced < MaxHoldPlaced
  /\ game' = IF ~Collides(game.board, game.currentPiece, game.currentRotation,
                         game.currentX, game.currentY - 1)
              THEN [game EXCEPT !.currentY = game.currentY - 1]
              ELSE game
  /\ callArgs' = [fn |-> "moveDown", pre |-> game]
  /\ callRet' = Null
  /\ UNCHANGED << pending, lastMove, boardVars, clearVars, placeVars, planVars, rotVars,
                  featVars, rndVars, bfsVars, webVars >>

\* rotate(direction)
Turn(direction) ==
  /\ ~game.gameOver
  /\ game.piecesPlaced < MaxHoldPlaced
  /\ game' = rotate(game, rotateCall(game, direction))
  /\ callArgs' = [fn |-> "rotate", pre |-> game]
  /\ callRet' = Null
  /\ UNCHANGED << pending, lastMove, boardVars, clearVars, placeVars, planVars, rotVars,
                  featVars, rndVars, bfsVars, webVars >>

\* The targets handed to applyPlacement: where the piece is, below the floor,
\* and the bottom left corner (free or taken).
OpsTargets(g) ==
  {[rotation |-> g.currentRotation, x |-> g.currentX, y |-> g.currentY],
   [rotation |-> g.currentRotation, x |-> g.currentX, y |-> -1],
   [rotation |-> R0, x |-> 0, y |-> 0]}

OpsNext ==
  \/ Hold
  \/ \E dx \in {-1, 1} : Shift(dx)
  \/ SoftDrop
  \/ \E direction \in {1, -1} : Turn(direction)
  \/ HardDrop
  \/ \E target \in OpsTargets(game), held \in BOOLEAN : ApplyPlacementAt(target, held)

SpecOps == HoldInit /\ [][OpsNext]_vars

(***************************************************************************)
(* SpecTrunc: a classic-mode Game (truncateLock) from its empty board: the  *)
(* moves, hardDrop(), applyPlacement() at and above the piece, and          *)
(* Game.simulatePlacement on the board of the game with truncateAbove =     *)
(* height, as the planners call it.                                         *)
(***************************************************************************)
TruncInit ==
  /\ BoardVarsInit
  /\ RotVarsIdle
  /\ FeatVarsIdle
  /\ RndVarsIdle
  /\ BfsVarsIdle
  /\ WebVarsIdle
  /\ ClearVarsIdle
  /\ PlaceVarsIdle
  /\ PlanVarsIdle
  /\ \E draw \in HoldPieces :
       /\ game = NewGame(classicMode, draw)
       /\ callArgs = [fn |-> "new", pre |-> game]
  /\ pending = Null
  /\ lastMove = NoMove
  /\ callRet = Null

\* Where the piece is, and one and two rows higher.
TruncTargets(g) ==
  {[rotation |-> g.currentRotation, x |-> g.currentX, y |-> g.currentY + dy] :
     dy \in 0 .. 2}

\* The last operation was an applyPlacement that locked a piece with a cell
\* at or above the visible height.
LockTruncated ==
  /\ callArgs.fn = "applyPlacement"
  /\ callArgs.locked
  /\ \E k \in 1 .. 4 :
       callArgs.placement.y
         + PIECE_CELLS(callArgs.placement.piece, callArgs.placement.rotation)[k].y
           >= VisibleH

\* Game.simulatePlacement(board, piece, rotation, x, y, height, height)
Simulate(target) ==
  /\ ~game.gameOver
  /\ callArgs.fn # "simulatePlacement"
  /\ callRet' = simulatePlacement(game.board, game.currentPiece, target.rotation, target.x,
                                  target.y, Some(VisibleH), Some(VisibleH))
  /\ callArgs' = [fn |-> "simulatePlacement", pre |-> game, placement |-> target,
                  afterTruncation |-> LockTruncated]
  /\ UNCHANGED << game, pending, lastMove, boardVars, clearVars, placeVars, planVars,
                  rotVars, featVars, rndVars, bfsVars, webVars >>

TruncNext ==
  \/ \E dx \in {-1, 1} : Shift(dx)
  \/ SoftDrop
  \/ \E direction \in {1, -1} : Turn(direction)
  \/ HardDrop
  \/ \E target \in TruncTargets(game) : ApplyPlacementAt(target, FALSE)
  \/ \E target \in TruncTargets(game) : Simulate(target)

SpecTrunc == TruncInit /\ [][TruncNext]_vars

(***************************************************************************)
(* SpecSimple: one call of generatePlacementsSimple, one body of the x      *)
(* loop at a time.  bfsArgs is the (rot, x) the loops stand at, Null after  *)
(* the last one; bfsRun holds `seen` and `placements`.  The second descent  *)
(* of the body writes a local y that nothing reads and is left out.         *)
(***************************************************************************)
\* hardDropY: the while loop.
RECURSIVE HardDropLoop(_, _, _, _, _)
HardDropLoop(b, piece, rotation, x, dy) ==
  IF dy > 0 /\ ~Collides(b, piece, rotation, x, dy - 1)
  THEN HardDropLoop(b, piece, rotation, x, dy - 1)
  ELSE dy

hardDropY(b, piece, rotation, x, y) ==
  LET dy == HardDropLoop(b, piece, rotation, x, y)
  IN  IF dy > 0 THEN dy
      ELSE IF Collides(b, piece, rotation, x, 0) THEN dy ELSE 0

\* `while (y >= 0 && board.collides(piece, rotation, x, y)) y--`
RECURSIVE FirstFreeY(_, _, _, _, _)
FirstFreeY(b, piece, rotation, x, y) ==
  IF y >= 0 /\ Collides(b, piece, rotation, x, y)
  THEN FirstFreeY(b, piece, rotation, x, y - 1)
  ELSE y

\* The x values of the inner loop: -minCellX .. width - 1 - maxCellX.
SimpleXs(piece, rot) ==
  LET cells == PIECE_CELLS(piece, rot)
      minCellX == CHOOSE m \in {cells[k].x : k \in 1 .. 4} :
                    \A k \in 1 .. 4 : m <= cells[k].x
      maxCellX == CHOOSE m \in {cells[k].x : k \in 1 .. 4} :
                    \A k \in 1 .. 4 : m >= cells[k].x
  IN  (0 - minCellX) .. (BoardW - 1 - maxCellX)

\* The first x of the loop over x for rot, when the rot loop reaches it.
SimpleEnter(piece, rot) ==
  IF rot >= 4 \/ (piece = PieceO /\ rot > 0) THEN Null
  ELSE Some([rot |-> rot, x |-> CHOOSE x \in SimpleXs(piece, rot) :
                                  \A z \in SimpleXs(piece, rot) : x <= z])

\* The (rot, x) after `at`.
SimpleAdvance(piece, at) ==
  IF at.x + 1 \in SimpleXs(piece, at.rot) THEN Some([at EXCEPT !.x = @ + 1])
  ELSE SimpleEnter(piece, at.rot + 1)

\* One body of the loop over x.
SimpleBody(b, piece, rot, x, run) ==
  IF FirstFreeY(b, piece, rot, x, b.totalHeight - 1) < 0 THEN run
  ELSE LET fy == hardDropY(b, piece, rot, x, b.totalHeight - 1)
           key == << rot, x, fy >>
       IN  IF Collides(b, piece, rot, x, fy) THEN run
           ELSE IF key \in run.seen THEN run
           ELSE [seen |-> run.seen \cup {key},
                 placements |-> Append(run.placements,
                                       [piece |-> piece, rotation |-> rot, x |-> x,
                                        y |-> fy])]

SimpleInit ==
  /\ BoardVarsInit
  /\ RotVarsIdle
  /\ FeatVarsIdle
  /\ CallVarsIdle
  /\ RndVarsIdle
  /\ WebVarsIdle
  /\ ClearVarsIdle
  /\ PlanVarsIdle
  /\ GameVarsIdle
  /\ \E filled \in SUBSET (0 .. (VisibleH * BoardW - 1)) :
       /\ Cardinality(filled) <= MaxSimpleFilled
       /\ plBoard = BoardOfCells(filled, TotalH)
  /\ plPiece \in Pieces
  /\ plMode = "srs"
  /\ plOut = Null
  /\ bfsArgs = SimpleEnter(plPiece, 0)
  /\ bfsRun = Some([seen |-> {}, placements |-> << >>])

SimpleIterate ==
  /\ plOut = Null
  /\ bfsArgs # Null
  /\ bfsRun' = Some(SimpleBody(plBoard, plPiece, bfsArgs[1].rot, bfsArgs[1].x, bfsRun[1]))
  /\ bfsArgs' = SimpleAdvance(plPiece, bfsArgs[1])
  /\ UNCHANGED << placeVars, boardVars, clearVars, planVars, gameVars, rotVars,
                  featVars, callVars, rndVars, webVars >>

\* return placements
SimpleReturn ==
  /\ plOut = Null
  /\ bfsArgs = Null
  /\ plOut' = Some(bfsRun[1].placements)
  /\ UNCHANGED << plBoard, plPiece, plMode, notPlaceVars >>

SimpleNext ==
  \/ SimpleIterate
  \/ SimpleReturn

SpecSimple == SimpleInit /\ [][SimpleNext]_vars

(***************************************************************************)
(* SpecBeam: one candidate of a beam search followed from level to level.  *)
(* planBy is the search running, beamSearchSelect of beam.ts ("beam") or   *)
(* beamSearch ("beamSearch"); planSnap and planCfg are its arguments.      *)
(* Each step is one expandPiece / expandPlacements call of the loop body   *)
(* made for the candidate followed; callArgs holds the level reached, the  *)
(* candidate followed from here (one the call pushed), the hold piece and  *)
(* piece index of every candidate the call pushed, and the pieces placed   *)
(* on the way.  Pruning only drops candidates, so every candidate of every *)
(* level and beam width is met this way.                                   *)
(***************************************************************************)
\* The cell a snapshot's board may hold: on the spawn row of the I piece.
BeamCells == {VisibleH * BoardW}

BeamHolds ==
  {[allowHold |-> FALSE, holdUsed |-> FALSE, holdPiece |-> Null],
   [allowHold |-> TRUE, holdUsed |-> FALSE, holdPiece |-> Null],
   [allowHold |-> TRUE, holdUsed |-> FALSE, holdPiece |-> Some(PieceL)],
   [allowHold |-> TRUE, holdUsed |-> TRUE, holdPiece |-> Some(PieceL)]}

BeamPreview == << PieceI, PieceT, PieceO >>

BeamInit ==
  /\ BoardVarsInit
  /\ RotVarsIdle
  /\ FeatVarsIdle
  /\ RndVarsIdle /\ BfsVarsIdle /\ WebVarsIdle
  /\ ClearVarsIdle
  /\ PlaceVarsIdle
  /\ GameVarsIdle
  /\ \E filled \in SUBSET BeamCells, h \in BeamHolds, n \in 0 .. Len(BeamPreview) :
       /\ Cardinality(filled) <= MaxBeamFilled
       /\ planSnap = [board |-> BoardOfCells(filled, VisibleH + 4), height |-> VisibleH,
                      rotationSystem |-> modernMode.rotationSystem,
                      initialDrop |-> modernMode.initialDrop,
                      truncateLock |-> modernMode.truncateLock, currentPiece |-> PieceO,
                      holdPiece |-> h.holdPiece, holdUsed |-> h.holdUsed,
                      allowHold |-> h.allowHold, preview |-> SubSeq(BeamPreview, 1, n)]
  /\ planBy \in {"beam", "beamSearch"}
  /\ planCfg = [depth |-> MaxBeamDepth, beamWidth |-> 1]
  /\ planOut = Null
  /\ callArgs = [fn |-> "candidate", level |-> 0, cand |-> Null, books |-> {},
                 placed |-> << >>]
  /\ callRet = Null

\* The expandPiece calls of level 0: [piece, holdPiece, nextPieceIndex, held].
RootCalls(snap) ==
  {[piece |-> snap.currentPiece, holdPiece |-> snap.holdPiece,
    nextPieceIndex |-> 0, held |-> FALSE]}
  \cup
  (IF ~(snap.allowHold /\ ~snap.holdUsed) THEN {}
   ELSE IF snap.holdPiece # Null
   THEN {[piece |-> snap.holdPiece[1], holdPiece |-> Some(snap.currentPiece),
          nextPieceIndex |-> 0, held |-> TRUE]}
   ELSE IF Len(snap.preview) > 0
   THEN {[piece |-> snap.preview[1], holdPiece |-> Some(snap.currentPiece),
          nextPieceIndex |-> 1, held |-> TRUE]}
   ELSE {})

\* The calls of the loop body with a promoting hold that moves the index by
\* one only.
LevelCallsSkip(c, snap) ==
  LET preview == snap.preview
      pieceIdx == c.nextPieceIndex
  IN  IF pieceIdx >= Len(preview) THEN {}
      ELSE
        {[piece |-> preview[pieceIdx + 1], holdPiece |-> c.holdPiece,
          nextPieceIndex |-> pieceIdx + 1, held |-> FALSE]}
        \cup
        (IF ~snap.allowHold THEN {}
         ELSE IF c.holdPiece # Null
         THEN {[piece |-> c.holdPiece[1], holdPiece |-> Some(preview[pieceIdx + 1]),
                nextPieceIndex |-> pieceIdx + 1, held |-> TRUE]}
         ELSE IF pieceIdx + 1 < Len(preview)
         THEN {[piece |-> preview[pieceIdx + 2], holdPiece |-> Some(preview[pieceIdx + 1]),
                nextPieceIndex |-> pieceIdx + 1, held |-> TRUE]}
         ELSE {})

\* The expandPiece calls of the loop body for the candidate c.
LevelCalls(c, snap) ==
  LET preview == snap.preview
      pieceIdx == c.nextPieceIndex
  IN  IF pieceIdx >= Len(preview) THEN {}
      ELSE
        {[piece |-> preview[pieceIdx + 1], holdPiece |-> c.holdPiece,
          nextPieceIndex |-> pieceIdx + 1, held |-> FALSE]}
        \cup
        (IF ~snap.allowHold THEN {}
         ELSE IF c.holdPiece # Null
         THEN {[piece |-> c.holdPiece[1], holdPiece |-> Some(preview[pieceIdx + 1]),
                nextPieceIndex |-> pieceIdx + 1, held |-> TRUE]}
         ELSE IF pieceIdx + 1 < Len(preview)
         THEN {[piece |-> preview[pieceIdx + 2], holdPiece |-> Some(preview[pieceIdx + 1]),
                nextPieceIndex |-> pieceIdx + 2, held |-> TRUE]}
         ELSE {})

\* The expandPlacements calls of the loop body for a node: [piece, useHold].
NodeCalls(node, allowHold, nextPieces) ==
  IF node.pieceIndex >= Len(nextPieces) THEN {}
  ELSE
    {[piece |-> nextPieces[node.pieceIndex + 1], useHold |-> FALSE]}
    \cup
    (IF ~(allowHold /\ ~node.holdUsed) THEN {}
     ELSE IF node.holdPiece # Null THEN {[piece |-> node.holdPiece[1], useHold |-> TRUE]}
     ELSE IF node.pieceIndex + 2 <= Len(nextPieces)
     THEN {[piece |-> nextPieces[node.pieceIndex + 2], useHold |-> TRUE]}
     ELSE {})

\* What a call pushed: the candidate followed and the books of all.
Followed(level, pushed, i, piece) ==
  [fn |-> "candidate", level |-> level, cand |-> Some(pushed[i]),
   books |-> {[holdPiece |-> pushed[j].holdPiece,
               index |-> IF planBy = "beam" THEN pushed[j].nextPieceIndex
                         ELSE pushed[j].pieceIndex] : j \in DOMAIN pushed},
   placed |-> Append(callArgs.placed, piece)]

\* Level 0 of beamSearchSelect.
ExpandRoot ==
  /\ planBy = "beam"
  /\ callArgs.level = 0
  /\ \E call \in RootCalls(planSnap) :
       \E pushed \in {expandPiece(planSnap.board, call.piece, planSnap.height,
                                  BCTS_WEIGHTS, planSnap.rotationSystem, << >>, Null,
                                  call.holdPiece, call.nextPieceIndex, call.held,
                                  planSnap.initialDrop,
                                  IF planSnap.truncateLock THEN Some(planSnap.height)
                                  ELSE Null)} :
         \E i \in DOMAIN pushed :
           callArgs' = Followed(1, pushed, i, call.piece)
  /\ UNCHANGED << callRet, planVars, boardVars, clearVars, placeVars, gameVars, rotVars,
                  featVars, rndVars, bfsVars, webVars >>

\* Math.min(config.depth, preview.length + 1)
BeamMaxDepth ==
  IF planCfg.depth < Len(planSnap.preview) + 1 THEN planCfg.depth
  ELSE Len(planSnap.preview) + 1

\* One of the levels 1 .. maxDepth - 1 of beamSearchSelect.
ExpandLevel ==
  /\ planBy = "beam"
  /\ callArgs.level >= 1
  /\ callArgs.level < BeamMaxDepth
  /\ \E call \in LevelCalls(callArgs.cand[1], planSnap) :
       \E pushed \in {expandPiece(callArgs.cand[1].board, call.piece, planSnap.height,
                                  BCTS_WEIGHTS, planSnap.rotationSystem, << >>,
                                  Some(callArgs.cand[1].firstAction), call.holdPiece,
                                  call.nextPieceIndex, call.held, planSnap.initialDrop,
                                  IF planSnap.truncateLock THEN Some(planSnap.height)
                                  ELSE Null)} :
         \E i \in DOMAIN pushed :
           callArgs' = Followed(callArgs.level + 1, pushed, i, call.piece)
  /\ UNCHANGED << callRet, planVars, boardVars, clearVars, placeVars, gameVars, rotVars,
                  featVars, rndVars, bfsVars, webVars >>

\* const knownPieces = [currentPiece, ...preview]
KnownPieces == << planSnap.currentPiece >> \o planSnap.preview

\* The node followed in beamSearch: the root state before depth 0.
BeamNode ==
  IF callArgs.cand # Null THEN callArgs.cand[1]
  ELSE [board |-> planSnap.board, score |-> 0, firstAction |-> Null,
        holdPiece |-> planSnap.holdPiece, holdUsed |-> planSnap.holdUsed,
        pieceIndex |-> 0]

\* One depth d < effectiveDepth of beamSearch.
ExpandNode ==
  /\ planBy = "beamSearch"
  /\ callArgs.level < planCfg.depth
  /\ callArgs.level < Len(KnownPieces)
  /\ \E call \in NodeCalls(BeamNode, planSnap.allowHold, KnownPieces) :
       \E pushed \in {expandPlacements(BeamNode, call.piece, call.useHold, callArgs.level,
                                       planSnap.board.totalHeight - 4, BCTS_WEIGHTS,
                                       << >>, KnownPieces)} :
         \E i \in DOMAIN pushed :
           callArgs' = Followed(callArgs.level + 1, pushed, i, call.piece)
  /\ UNCHANGED << callRet, planVars, boardVars, clearVars, placeVars, gameVars, rotVars,
                  featVars, rndVars, bfsVars, webVars >>

BeamNext ==
  \/ ExpandRoot
  \/ ExpandLevel
  \/ ExpandNode

SpecBeam == BeamInit /\ [][BeamNext]_vars

(***************************************************************************)
(* SpecBfs: one call of generatePlacements, iteration by iteration.  The   *)
(* call is made on a board, a piece and a spawn state at or next to the    *)
(* spawn position of the rotation system; each step is one iteration of    *)
(* the while loop, the last one the return.                                *)
(***************************************************************************)
BfsSpawns(mode, piece) ==
  LET pos == ModeSpawnPos(mode, piece, BoardW, VisibleH)
  IN  {St(pos.x + dx, pos.y + dy, ModeSpawnRot(mode, piece)) :
         dx \in {-1, 0}, dy \in {-1, 0}}

BfsInit ==
  /\ BoardVarsInit
  /\ RotVarsIdle
  /\ FeatVarsIdle
  /\ CallVarsIdle
  /\ RndVarsIdle
  /\ WebVarsIdle
  /\ ClearVarsIdle
  /\ PlanVarsIdle
  /\ GameVarsIdle
  /\ \E filled \in SUBSET (0 .. (VisibleH * BoardW - 1)) :
       /\ Cardinality(filled) <= MaxBfsFilled
       /\ plBoard = BoardOfCells(filled, TotalH)
  /\ plPiece \in Pieces
  /\ plMode \in RotateFns
  /\ plOut = Null
  /\ \E s \in BfsSpawns(plMode, plPiece) :
       /\ bfsArgs = Some(s)
       /\ bfsRun = IF Collides(plBoard, plPiece, s.rotation, s.x, s.y) THEN Null
                   ELSE Some(BfsEntry(plBoard, s.x, s.y, s.rotation))

BfsStride == BoardW + 8
BfsVisitedSize == (plBoard.totalHeight + 8) * BfsStride * 4

\* One iteration of the loop.
BfsIterate ==
  /\ plOut = Null
  /\ bfsRun # Null
  /\ bfsRun[1].head <= Len(bfsRun[1].queue)
  /\ bfsRun' = Some(BfsIteration(plBoard, plPiece, ModeRotate(plMode), BfsStride,
                                 BfsVisitedSize, bfsRun[1]))
  /\ UNCHANGED << bfsArgs, placeVars, boardVars, clearVars, planVars, gameVars, rotVars,
                  featVars, callVars, rndVars, webVars >>

\* return []  when the spawn state collides, return placements  when the
\* queue is used up.
BfsReturn ==
  /\ plOut = Null
  /\ bfsRun # Null => bfsRun[1].head > Len(bfsRun[1].queue)
  /\ plOut' = Some(IF bfsRun = Null THEN << >> ELSE bfsRun[1].placements)
  /\ UNCHANGED << plBoard, plPiece, plMode, notPlaceVars >>

BfsNext ==
  \/ BfsIterate
  \/ BfsReturn

SpecBfs == BfsInit /\ [][BfsNext]_vars /\ WF_vars(BfsNext)

(***************************************************************************)
(* The number-only steps of expectimax (SpecCalls).                        *)
(***************************************************************************)
\* k weakly dominates c: same-or-better leaf score, same-or-fewer holes,
\* same-or-lower maximum height.
WeaklyDominates(k, c) ==
  /\ k.leafScore >= c.leafScore
  /\ k.holes <= c.holes
  /\ k.maxH <= c.maxH

\* The candidates of a list, by their number in the enumeration.
Placed(candidates) == {candidates[i].placement : i \in DOMAIN candidates}
ByPlacement(candidates, id) ==
  candidates[CHOOSE i \in DOMAIN candidates : candidates[i].placement = id]

\* The survivors hold no candidate that another survivor weakly dominates.
NoSurvivorDominated(kept) ==
  \A a \in Placed(kept), b \in Placed(kept) :
    a # b => ~WeaklyDominates(ByPlacement(kept, b), ByPlacement(kept, a))

\* Every candidate that did not survive is weakly dominated by a survivor.
DiscardedAreDominated(candidates, kept) ==
  \A c \in Placed(candidates) \ Placed(kept) :
    \E k \in Placed(kept) : WeaklyDominates(ByPlacement(kept, k), ByPlacement(candidates, c))

\* The call went through dominance pruning: depth > 1 with a preview piece.
Pruned == callArgs.fn = "searchedCandidates" /\ callRet # Null
          /\ callArgs.config.depth > 1 /\ callArgs.nextPiece # Null

\* C21: with depth > 1 the survivors of dominance pruning hold no candidate
\* weakly dominated (leaf score <=, holes >=, max height >=) by a different
\* survivor, every discarded candidate is weakly dominated by a survivor, and
\* at least one candidate survives; with depth <= 1 nothing is discarded.
C21_DominancePruning ==
  (callArgs.fn = "searchedCandidates" /\ callRet # Null) =>
    /\ Pruned =>
         /\ NoSurvivorDominated(callRet[1])
         /\ DiscardedAreDominated(callArgs.candidates, callRet[1])
         /\ Len(callRet[1]) >= 1
         /\ Placed(callRet[1]) \subseteq Placed(callArgs.candidates)
    /\ callArgs.config.depth <= 1 => callRet[1] = callArgs.candidates

\* d * den - num for a double d and integers num, den > 0, exactly:
\* [neg, mag, exp] of value (-1)^neg * mag * 2^exp.
ExactDiff(d, num, den) ==
  LET ex == IF d.exp < 0 THEN d.exp ELSE 0
      a == BigShl(BigMulLimb(d.man, den), d.exp - ex)
      b == BigShl(BigOfInt(IF num < 0 THEN -num ELSE num), -ex)
      aNeg == d.neg /\ Len(a) # 0
      bNeg == num > 0
  IN  IF Len(b) = 0 THEN [neg |-> aNeg, mag |-> a, exp |-> ex]
      ELSE IF Len(a) = 0 THEN [neg |-> bNeg, mag |-> b, exp |-> ex]
      ELSE IF aNeg = bNeg THEN [neg |-> aNeg, mag |-> BigAdd(a, b), exp |-> ex]
      ELSE IF BigCmp(a, b) >= 0 THEN [neg |-> aNeg /\ BigCmp(a, b) > 0, mag |-> BigSub(a, b), exp |-> ex]
      ELSE [neg |-> bNeg, mag |-> BigSub(b, a), exp |-> ex]

\* d >= num / den and d <= num / den, exactly
AtLeast(d, num, den) == LET x == ExactDiff(d, num, den) IN ~x.neg \/ Len(x.mag) = 0
AtMost(d, num, den) == LET x == ExactDiff(d, num, den) IN x.neg \/ Len(x.mag) = 0

\* |d - num / den| <= scale * 2^-50: the rounding of the five operations of
\* the aggregation, for branch values of magnitude at most scale.
Near(d, num, den, scale) ==
  LET x == ExactDiff(d, num, den)
  IN  BigCmp(BigShl(x.mag, 50), BigShl(BigOfInt(den * scale), -x.exp)) <= 0

Aggregated == callArgs.fn = "chanceNode" /\ callRet # Null
Magnitude(values) == MaxOf({IF values[i] < 0 THEN -values[i] ELSE values[i] : i \in DOMAIN values})
Total(values) == SumOver([i \in DOMAIN values |-> values[i]], DOMAIN values)
AllEqual(values) == \A i \in DOMAIN values : values[i] = values[1]

\* C22 as stated: the value of a chance node is (v0 + v1 + 0.1*v2) / 2.1 for
\* the sorted branch values, it is never below the minimum branch value and
\* never above the mean of the seven values, and it is v when all seven are v.
C22_CVaRExact ==
  Aggregated =>
    LET values == callArgs.values
        sorted == SortAscending(values, 1, << >>)
    IN  /\ Near(callRet[1], CVaR21(values), 21, Magnitude(values))
        /\ AtLeast(callRet[1], sorted[1], 1)
        /\ AtMost(callRet[1], Total(values), PIECE_COUNT)
        /\ AllEqual(values) => callRet[1] = f64OfInt(values[1])

\* C22, amended: the value of a chance node is (v0 + v1 + 0.1*v2) / 2.1 up to
\* the rounding of double arithmetic, an error of at most 2^-50 times the
\* largest magnitude of a branch value; up to that error it is not below the
\* minimum, not above the mean, and v when all seven values are v.
C22_CVaRRounded ==
  Aggregated =>
    LET values == callArgs.values
        sorted == SortAscending(values, 1, << >>)
        m == Magnitude(values)
        r == callRet[1]
    IN  /\ Near(r, CVaR21(values), 21, m)
        /\ AtLeast(r, sorted[1], 1) \/ Near(r, sorted[1], 1, m)
        /\ AtMost(r, Total(values), PIECE_COUNT) \/ Near(r, Total(values), PIECE_COUNT, m)
        /\ AllEqual(values) => Near(r, values[1], 1, m)
        /\ m = 0 => r = f64Zero

\* Seven equal branch values whose aggregate is another number, next to them.
C22_Witness ==
  /\ Aggregated
  /\ AllEqual(callArgs.values)
  /\ callRet[1] # f64OfInt(callArgs.values[1])
  /\ Near(callRet[1], callArgs.values[1], 1, Magnitude(callArgs.values))

(***************************************************************************)
(* The greedy planner's choice (SpecPlan).                                 *)
(***************************************************************************)
\* The placements greedySelect enumerates for a piece, each with the score of
\* its afterstate (Null where the simulation gives none), in order.
GreedyScored(snap, piece, held) ==
  LET pos == getSpawnPosition(piece, BoardW, snap.board.totalHeight - 4)
      placements == generatePlacements(snap.board, piece, pos.x, pos.y, "srs", R0)
  IN  [i \in 1 .. Len(placements) |->
         LET sim == simulatePlacement(snap.board, placements[i].piece, placements[i].rotation,
                                      placements[i].x, placements[i].y, Null, Null)
         IN  IF sim = Null THEN Null
             ELSE Some([score |-> ScoreOf(sim[1], BCTS_WEIGHTS),
                        placement |-> Action(placements[i], held)])]

\* The held piece, or the first preview piece when the hold slot is empty.
HoldTarget(snap) ==
  IF snap.holdPiece # Null THEN snap.holdPiece
  ELSE IF Len(snap.preview) > 0 THEN Some(snap.preview[1])
  ELSE Null

\* Current-piece placements first, then those of the hold target when hold is
\* allowed and unused.
GreedyCandidates(snap) ==
  GreedyScored(snap, snap.currentPiece, FALSE)
  \o (IF snap.allowHold /\ ~snap.holdUsed /\ HoldTarget(snap) # Null
      THEN GreedyScored(snap, HoldTarget(snap)[1], TRUE)
      ELSE << >>)

\* candidates[i] has the maximal score and is the first to have it
FirstBest(candidates, i) ==
  /\ candidates[i] # Null
  /\ \A j \in DOMAIN candidates :
       candidates[j] # Null =>
         /\ candidates[j][1].score <= candidates[i][1].score
         /\ j < i => candidates[j][1].score < candidates[i][1].score

\* C23: greedySelect returns a placement whose afterstate score is the maximum
\* over the reachable placements of the current piece and, when hold is
\* allowed and unused, of the hold target; among equal maximal scores it
\* returns the first enumerated, current-piece placements coming first.
C23_GreedyFirstMaximum ==
  planBy = "greedy" =>
    \A candidates \in {GreedyCandidates(planSnap)} :
      IF \A i \in DOMAIN candidates : candidates[i] = Null THEN planOut = Null
      ELSE \E i \in DOMAIN candidates :
             /\ FirstBest(candidates, i)
             /\ planOut = Some(candidates[i][1].placement)

\* The maximal score is reached by a current-piece placement and, later in
\* the enumeration, by a hold placement; the current-piece one is returned.
C23_Witness ==
  /\ planBy = "greedy"
  /\ planOut # Null
  /\ ~planOut[1].held
  /\ \E candidates \in {GreedyCandidates(planSnap)} :
       \E i \in DOMAIN candidates, j \in DOMAIN candidates :
         /\ FirstBest(candidates, i)
         /\ candidates[j] # Null
         /\ candidates[j][1].placement.held
         /\ candidates[j][1].score = candidates[i][1].score

(***************************************************************************)
(* Frame effects on boards in memory (SpecSim).                            *)
(***************************************************************************)
\* The value of board object ref after the step.
After(ref) == Deref(cellsMem', heightsMem', ref)

\* The arrays of the boards that exist before a call.
LiveCells == {boardA.cells} \cup (IF boardB # Null THEN {boardB[1].cells} ELSE {})
LiveHeights == {boardA.colHeights} \cup (IF boardB # Null THEN {boardB[1].colHeights} ELSE {})

\* A step that is a call of simulatePlacement, generatePlacements or a planner.
IsCall == callArgs'.seq # callArgs.seq

FrameStep ==
  /\ IsCall =>
       /\ After(boardA) = BoardOf("a")
       /\ boardB # Null => After(boardB[1]) = BoardOf("b")
       /\ (callArgs'.fn = "simulatePlacement" /\ callRet' # Null) =>
            /\ callRet'[1].board.cells \notin LiveCells
            /\ callRet'[1].board.colHeights \notin LiveHeights
  /\ (~IsCall /\ boardB # Null) =>
       \/ After(boardA) = BoardOf("a")
       \/ After(boardB[1]) = BoardOf("b")

\* C24: simulatePlacement, generatePlacements and the planners leave every
\* cell and column height of the board passed to them unchanged, whether they
\* return a result or null, and every afterstate board is an independent
\* copy: it shares no array with a board that existed before, and a later
\* write to one board leaves the other unchanged.
C24_BoardsUntouched == [][FrameStep]_vars

\* simulatePlacement was called on a kept afterstate and returned a result.
C24_Witness ==
  /\ callArgs.fn = "simulatePlacement"
  /\ callArgs.target = "b"
  /\ callRet # Null
  /\ BoardOf("b") # BoardOf("a")
  /\ Deref(cellsMem, heightsMem, callRet[1].board) # BoardOf("b")

(***************************************************************************)
(* Game.applyPlacement and Game.hold (SpecHold).                           *)
(***************************************************************************)
\* The call was applyPlacement with held = false on a running game, with a
\* target that collides with the board.
CollidingTarget ==
  /\ callArgs.fn = "applyPlacement"
  /\ ~callArgs.pre.gameOver
  /\ ~callArgs.placement.held
  /\ Collides(callArgs.pre.board, callArgs.pre.currentPiece, callArgs.placement.rotation,
              callArgs.placement.x, callArgs.placement.y)

\* C25: applyPlacement with held = false and a target that collides with the
\* board locks nothing: it sets gameOver, returns gameOver: true, and leaves
\* the board cells, linesCleared, piecesPlaced and the hold slot unchanged.
C25_CollidingTargetEndsGame ==
  CollidingTarget =>
    /\ ~callArgs.locked
    /\ game.gameOver
    /\ callRet = Some([linesCleared |-> 0, pieceCellsInCleared |-> 0, gameOver |-> TRUE])
    /\ game.board = callArgs.pre.board
    /\ game.linesCleared = callArgs.pre.linesCleared
    /\ game.piecesPlaced = callArgs.pre.piecesPlaced
    /\ game.holdPiece = callArgs.pre.holdPiece
    /\ game.holdUsed = callArgs.pre.holdUsed

\* A colliding target inside the board, on a board that holds cells, in a game
\* with a piece in the hold slot.
C25_Witness ==
  /\ CollidingTarget
  /\ callArgs.placement.y >= 0
  /\ callArgs.pre.holdPiece # Null
  /\ callArgs.pre.piecesPlaced > 0
  /\ game.gameOver

\* The call locked the current piece.
Locked == callArgs.fn \in {"hardDrop", "applyPlacement"} /\ callArgs.locked
\* hold() was called while the hold was used up, or in a game without hold.
HoldRefused == callArgs.fn = "hold" /\ (callArgs.pre.holdUsed \/ ~callArgs.pre.config.allowHold)

\* C26 as stated: after a successful hold() every further hold() returns
\* false and changes no state until the current piece locks; after a lock
\* holdUsed is reset; with allowHold false hold() always returns false and
\* changes no state.
C26_HoldOncePerPiece ==
  /\ (callArgs.fn = "hold" /\ callRet = Some(TRUE)) => (game.holdUsed /\ ~callArgs.pre.holdUsed)
  /\ (callArgs.fn # "new" /\ ~Locked /\ callArgs.pre.holdUsed) => game.holdUsed
  /\ HoldRefused => (callRet = Some(FALSE) /\ game = callArgs.pre)
  /\ Locked => ~game.holdUsed

\* C26, amended: after a successful hold() every further hold() returns
\* false and changes no state until the current piece locks; a lock that is
\* not a lock-out resets holdUsed, a lock-out ends the game; with allowHold
\* false hold() always returns false and changes no state; a hold() on a
\* running game with hold allowed and unused succeeds or ends the game.
C26_HoldOncePerPieceUnlessLockOut ==
  /\ (callArgs.fn = "hold" /\ callRet = Some(TRUE)) => (game.holdUsed /\ ~callArgs.pre.holdUsed)
  /\ (callArgs.fn # "new" /\ ~Locked /\ callArgs.pre.holdUsed) => game.holdUsed
  /\ HoldRefused => (callRet = Some(FALSE) /\ game = callArgs.pre)
  /\ Locked =>
       IF callArgs.lockedOut THEN game.gameOver /\ callRet[1].gameOver
       ELSE ~game.holdUsed
  /\ (callArgs.fn = "hold" /\ ~HoldRefused /\ ~callArgs.pre.gameOver) =>
       (callRet = Some(TRUE) \/ game.gameOver)

\* A lock resets a hold that was used, and the game goes on.
C26_Witness ==
  /\ Locked
  /\ ~callArgs.lockedOut
  /\ callArgs.pre.holdUsed
  /\ ~game.holdUsed
  /\ ~game.gameOver

(***************************************************************************)
(* C27: the held flag of a planner's placement and the piece it names.     *)
(***************************************************************************)
\* The piece a hold brings into play: the hold piece, or the first preview
\* piece when the hold slot is empty.
PlayedByHold(snap) ==
  IF snap.holdPiece # Null THEN snap.holdPiece
  ELSE IF Len(snap.preview) > 0 THEN Some(snap.preview[1]) ELSE Null

Planned == planBy # "none" /\ planOut # Null

\* C27: when the snapshot has allowHold = false or holdUsed = true, the
\* placement a planner returns has held = false and names the snapshot's
\* current piece; whenever a planner returns held = true, the placement
\* names the snapshot's hold piece, or the first preview piece when the hold
\* slot is empty.
C27_HeldNamesThePiece ==
  Planned =>
    /\ (~planSnap.allowHold \/ planSnap.holdUsed) =>
         (~planOut[1].held /\ planOut[1].piece = planSnap.currentPiece)
    /\ planOut[1].held => Some(planOut[1].piece) = PlayedByHold(planSnap)

\* A planner answers with a hold on an empty hold slot: the piece is the
\* first preview piece, not the current one.
C27_Witness ==
  /\ Planned
  /\ planOut[1].held
  /\ planSnap.holdPiece = Null
  /\ planOut[1].piece = planSnap.preview[1]
  /\ planOut[1].piece # planSnap.currentPiece

(***************************************************************************)
(* C28, C29: the randomizers (SpecRandom).                                 *)
(***************************************************************************)
\* The draws number 7k+1 .. 7k+7 of seq that have been made.
Group(seq, k) ==
  SubSeq(seq, PIECE_COUNT * k + 1,
         IF PIECE_COUNT * (k + 1) <= Len(seq) THEN PIECE_COUNT * (k + 1) ELSE Len(seq))

\* Each full group of seven draws holds the seven pieces, and no group
\* holds a piece twice.
EachOncePerGroup(seq) ==
  \A k \in 0 .. (Len(seq) \div PIECE_COUNT) :
    LET g == Group(seq, k)
    IN  /\ \A i, j \in DOMAIN g : g[i] = g[j] => i = j
        /\ Len(g) = PIECE_COUNT => {g[i] : i \in DOMAIN g} = Pieces

\* The draws of the clone, numbered as the original's: those made before
\* the clone was taken, then the clone's own.
CloneSequence == SubSeq(rndLog.drawn, 1, rndLog.clonedAt) \o rndLog.cloneDrawn

\* C28: for the BagRandomizer, the draws number 7k+1 to 7k+7 hold each of
\* the seven piece types exactly once, for every k, whatever the seed and
\* however peek and next calls are interleaved (on a clone as well).
C28_BagEachOncePerSeven ==
  rnd.type = "bag7" =>
    /\ EachOncePerGroup(rndLog.drawn)
    /\ rndClone # Null => EachOncePerGroup(CloneSequence)

\* Two full bags were drawn with a peek in between; the bags are shuffled,
\* and differently.
C28_Witness ==
  /\ rnd.type = "bag7"
  /\ Len(rndLog.drawn) = 2 * PIECE_COUNT
  /\ rndLog.peeks >= 1
  /\ Group(rndLog.drawn, 0) # Group(rndLog.drawn, 1)
  /\ Group(rndLog.drawn, 0) # ALL_PIECES

\* C29: peek(n) returns n pieces and consumes nothing: the next calls of
\* next() return the peeked pieces in order (so peeks agree with one
\* another); a clone, taken at any point, returns the pieces the original
\* returns from that point on, however the draws of the two are
\* interleaved.
C29_PeekAndCloneFaithful ==
  /\ rndRet # Null => Len(rndRet[1].pieces) = rndRet[1].count
  /\ \A i \in DOMAIN rndLog.promised : Cardinality(rndLog.promised[i]) <= 1
  /\ Len(rndLog.drawn) > 0 => rndLog.due \subseteq {rndLog.drawn[Len(rndLog.drawn)]}
  /\ \A i \in DOMAIN rndLog.cloneDrawn :
       rndLog.clonedAt + i <= Len(rndLog.drawn) =>
         rndLog.cloneDrawn[i] = rndLog.drawn[rndLog.clonedAt + i]

\* A uniform randomizer was peeked at, drawn from and cloned mid-stream;
\* the clone and the original have both drawn two pieces since.
C29_Witness ==
  /\ rnd.type = "uniform"
  /\ rndClone # Null
  /\ rndLog.peeks >= 1
  /\ rndLog.clonedAt >= 1
  /\ Len(rndLog.cloneDrawn) >= 2
  /\ Len(rndLog.drawn) >= rndLog.clonedAt + 2
  /\ rndLog.cloneDrawn[1] # rndLog.cloneDrawn[2]

(***************************************************************************)
(* C30: the keyframes of planAnimation (SpecAnim).                         *)
(***************************************************************************)
Animated == callArgs.fn = "planAnimation" /\ callRet # Null

FrameState(f) == St(f.x, f.y, f.rotation)

\* The frame cur follows the frame prev by one legal move on the board b:
\* one cell left or right, one cell down, a result of the rotation
\* function, or no change when cur is a lock frame.
LegalStep(b, rotateFn, prev, cur) ==
  \/ /\ cur.rotation = prev.rotation
     /\ cur.y = prev.y
     /\ cur.x \in {prev.x - 1, prev.x + 1}
  \/ /\ cur.rotation = prev.rotation
     /\ cur.x = prev.x
     /\ cur.y = prev.y - 1
  \/ \E dir \in {1, -1} :
       CallRotate(rotateFn, b, cur.piece, prev.rotation, dir, prev.x, prev.y)
         = Some(FrameState(cur))
  \/ /\ cur.type = "lock"
     /\ FrameState(cur) = FrameState(prev)

\* The placement asked for is the spawn state itself: the piece rests where
\* it comes under control.
PlacedAtSpawn ==
  St(callArgs.placement.x, callArgs.placement.y, callArgs.placement.rotation)
    = AnimSpawn(plBoard, plPiece, plMode, callArgs.initialDrop)

\* C30: for every placement returned by generatePlacements, the keyframes of
\* planAnimation start with a 'spawn' frame at the spawn state, which does
\* not collide, end with a 'lock' frame at the placement's (x, y, rotation),
\* hold no frame that collides with the board, and every frame follows the
\* one before it by exactly one legal move: one cell left or right, one cell
\* down, a rotation result of the rotation system, or (for lock) no change.
C30_LegalKeyframes ==
  Animated =>
    LET frames == callRet[1]
        n == Len(frames)
    IN  /\ n >= 2
        /\ frames[1].type = "spawn"
        /\ FrameState(frames[1]) = AnimSpawn(plBoard, plPiece, plMode, callArgs.initialDrop)
        /\ frames[n].type = "lock"
        /\ frames[n].x = callArgs.placement.x
        /\ frames[n].y = callArgs.placement.y
        /\ frames[n].rotation = callArgs.placement.rotation
        /\ \A i \in 1 .. n :
             /\ frames[i].piece = plPiece
             /\ ~Collides(plBoard, plPiece, frames[i].rotation, frames[i].x, frames[i].y)
        /\ \A i \in 2 .. n : LegalStep(plBoard, ModeRotate(plMode), frames[i - 1], frames[i])

(***************************************************************************)
(* useGameLoop (part_006).  A state of the hook is st = [refs, view, loop,  *)
(* callbacks]: loop holds genRef, timerRef, animRef (Null or the pending    *)
(* callback they name), effectTimer (the timer the cleanup of the AI        *)
(* effect clears), mounted, and cancels, the number of cancelAll calls so   *)
(* far; callbacks is the set of timers and animation frames still to fire.  *)
(* A callback is [kind, gen, epoch, ...]: gen is the generation its closure *)
(* holds, epoch the value of cancels when its chain was started.            *)
(***************************************************************************)
\* A cancelAll that leaves the generation and the pending callbacks alone.
cancelNothing(st) == [st EXCEPT !.loop.cancels = @ + 1]

\* cancelAll()
cancelAll(st) ==
  [st EXCEPT !.loop.genRef = @ + 1, !.loop.animRef = Null, !.loop.timerRef = Null,
             !.loop.cancels = @ + 1,
             !.callbacks = (@ \ (IF st.loop.animRef = Null THEN {}
                                 ELSE {st.loop.animRef[1]}))
                           \ (IF st.loop.timerRef = Null THEN {}
                              ELSE {st.loop.timerRef[1]})]

\* The AI thinking effect after a render in which view.phase changed: the
\* cleanup of the last run, then the body.
thinkingEffect(st) ==
  LET cleaned == [st EXCEPT !.callbacks = IF st.loop.effectTimer = Null THEN @
                                          ELSE @ \ {st.loop.effectTimer[1]},
                            !.loop.effectTimer = Null]
      cb == [kind |-> "think", gen |-> st.loop.genRef, epoch |-> st.loop.cancels,
             game |-> st.refs.game[1], queue |-> st.refs.queue,
             mc |-> st.refs.modeConfig[1]]
  IN  IF st.view.phase # "BOT_THINKING" \/ st.refs.game = Null \/ st.refs.modeConfig = Null
      THEN cleaned
      ELSE IF st.refs.game[1].gameOver
      THEN [cleaned EXCEPT !.view.phase = "GAME_OVER", !.view.gameOver = TRUE]
      ELSE [cleaned EXCEPT !.callbacks = @ \cup {cb}, !.loop.timerRef = Some(cb),
                           !.loop.effectTimer = Some(cb)]

\* What the hook is after a handler that left it as st, having started from
\* before: an unmounted component takes no setView and runs no effect.
Rendered(before, st) ==
  IF ~before.loop.mounted THEN [st EXCEPT !.view = before.view]
  ELSE IF st.view.phase = before.view.phase THEN st
  ELSE thinkingEffect(st)

\* The placements of one expandPiece call of the planner's first level.
FirstPlacements(board, call, mode, height) ==
  LET piece == call.piece
      spawnRot == ModeSpawnRot(mode, piece)
      rawSpawn == ModeSpawnPos(mode, piece, BoardW, height)
  IN  IF Collides(board, piece, spawnRot, rawSpawn.x, rawSpawn.y) THEN {}
      ELSE LET placements == generatePlacements(board, piece, rawSpawn.x, rawSpawn.y,
                                                ModeRotate(mode), spawnRot)
           IN  {Action(placements[i], call.held) :
                  i \in {j \in DOMAIN placements :
                           simulatePlacement(board, placements[j].piece,
                                             placements[j].rotation, placements[j].x,
                                             placements[j].y, Some(height), Null) # Null}}

\* What beamSearchSelect / expectimaxSelect may return on game.snapshot():
\* the first action of a candidate of the first level; none is null.
BotChoices(g, queue) ==
  LET snap == [allowHold |-> g.config.allowHold, holdUsed |-> g.holdUsed,
               holdPiece |-> g.holdPiece, currentPiece |-> g.currentPiece,
               preview |-> SubSeq(queue, 1, IF Len(queue) < g.config.previewCount
                                            THEN Len(queue) ELSE g.config.previewCount)]
  IN  UNION {FirstPlacements(g.board, call, g.config.rotationSystem, VisibleH) :
               call \in RootCalls(snap)}

\* startAnimLoop(keyframes, placement, gen), called by a callback of `epoch`.
startAnimLoop(st, keyframes, placement, gen, epoch) ==
  LET cb == [kind |-> "raf", gen |-> gen, epoch |-> epoch, keyframes |-> keyframes,
             placement |-> placement, frameIndex |-> 1]
  IN  [st EXCEPT !.loop.animRef = Some(cb), !.callbacks = @ \cup {cb},
                 !.view = applyAnimationFrame(st.refs, keyframes[1], st.view.piecesPlaced)]

\* The timer of the AI thinking effect, having chosen `choice` (Null or a
\* placement): [st, threw, commit].
thinkTimer(st, cb, choice) ==
  IF st.loop.genRef # cb.gen THEN [st |-> st, threw |-> FALSE, commit |-> FALSE]
  ELSE IF choice = Null
  THEN [st |-> [st EXCEPT !.view.phase = "GAME_OVER", !.view.gameOver = TRUE],
        threw |-> FALSE, commit |-> FALSE]
  ELSE
    CHOOSE out \in
      {IF Len(keyframes) = 0
       THEN CHOOSE res \in
              {[st |-> [st EXCEPT !.refs = a.refs, !.view = a.view], threw |-> a.threw,
                commit |-> TRUE] :
                 a \in {reducerApplyPlacement(st.refs, choice[1],
                                              st.view.piecesPlaced)}} : TRUE
       ELSE [st |-> startAnimLoop(st, keyframes, choice[1], cb.gen, cb.epoch),
             threw |-> FALSE, commit |-> FALSE] :
         keyframes \in {planAnimation(cb.game.board, choice[1], BoardW, VisibleH,
                                      ModeRotate(cb.mc.gameConfig.rotationSystem),
                                      ModeSpawnRot(cb.mc.gameConfig.rotationSystem,
                                                   choice[1].piece),
                                      cb.mc.gameConfig.rotationSystem,
                                      cb.mc.mode = "modern",
                                      cb.mc.gameConfig.initialDrop)}} : TRUE

\* `loop` of startAnimLoop on a frame whose delay has elapsed: [st, threw,
\* commit].
animFrame(st, cb) ==
  IF st.loop.genRef # cb.gen THEN [st |-> st, threw |-> FALSE, commit |-> FALSE]
  ELSE IF cb.frameIndex < Len(cb.keyframes)
  THEN LET nxt == [cb EXCEPT !.frameIndex = @ + 1]
       IN  [st |-> [st EXCEPT !.loop.animRef = IF @ = Some(cb) THEN Some(nxt) ELSE @,
                              !.callbacks = @ \cup {nxt},
                              !.view = applyAnimationFrame(st.refs,
                                                           cb.keyframes[cb.frameIndex + 1],
                                                           st.view.piecesPlaced)],
            threw |-> FALSE, commit |-> FALSE]
  ELSE
    CHOOSE out \in
      {LET flash == [kind |-> "flash", gen |-> cb.gen, epoch |-> cb.epoch,
                     clearedRows |-> a.view.clearingLines[1]]
           st1 == [st EXCEPT !.refs = a.refs, !.view = a.view, !.loop.animRef = Null]
       IN  [st |-> IF a.view.phase # "GAME_OVER" /\ a.view.clearingLines # Null
                      /\ Len(a.view.clearingLines[1]) > 0
                   THEN [st1 EXCEPT !.loop.timerRef = Some(flash),
                                    !.callbacks = @ \cup {flash}]
                   ELSE st1,
            threw |-> a.threw, commit |-> TRUE] :
         a \in {reducerApplyPlacement(st.refs, cb.placement, st.view.piecesPlaced)}} : TRUE

\* The flash timer.
flashTimer(st, cb) ==
  IF st.loop.genRef # cb.gen THEN st
  ELSE LET collapse == [kind |-> "collapse", gen |-> cb.gen, epoch |-> cb.epoch]
       IN  [st EXCEPT !.view.clearingLines = Null,
                      !.view.collapseShifts =
                        Some(computeCollapseShifts(cb.clearedRows, VisibleH + BufferRows)),
                      !.loop.timerRef = Some(collapse), !.callbacks = @ \cup {collapse}]

\* The collapse timer.
collapseTimer(st, cb) ==
  IF st.loop.genRef # cb.gen THEN st
  ELSE [st EXCEPT !.view.collapseShifts = Null, !.view.phase = "WAITING_FOR_PLAYER"]

(***************************************************************************)
(* SpecWeb: the web game under useGameLoop.  The player starts a game in    *)
(* either mode, picks pieces, restarts, or leaves the page; the timers and  *)
(* animation frames fire in any order.  `fired` records the last step:      *)
(* which handler ran, whether it was a callback of a chain started before   *)
(* a cancelAll (stale), whether it changed the engine or the view, whether  *)
(* HumanRandomizer.next() threw, for a commit the engine before it, and     *)
(* the kinds of the callbacks that were pending and are no more.            *)
(***************************************************************************)
WebSt == [refs |-> refs, view |-> view, loop |-> loop, callbacks |-> callbacks]

WebModes == {classicModeConfig, modernModeConfig}

WebInit ==
  /\ BoardVarsInit
  /\ ClearVarsIdle
  /\ PlaceVarsIdle
  /\ PlanVarsIdle
  /\ GameVarsIdle
  /\ RotVarsIdle
  /\ FeatVarsIdle
  /\ CallVarsIdle
  /\ RndVarsIdle
  /\ BfsVarsIdle
  /\ refs = createEngineRefs
  /\ view = createInitialView(Null)
  /\ loop = [genRef |-> 0, timerRef |-> Null, animRef |-> Null, effectTimer |-> Null,
             cancels |-> 0, mounted |-> TRUE]
  /\ callbacks = {}
  /\ fired = [kind |-> "none", stale |-> FALSE, changed |-> FALSE, threw |-> FALSE,
              pre |-> Null, dropped |-> {}]

\* The hook becomes Rendered(WebSt, st) and `fired` records the step.
WebStep(kind, stale, threw, pre, st) ==
  \E after \in {Rendered(WebSt, st)} :
    /\ refs' = after.refs
    /\ view' = after.view
    /\ loop' = after.loop
    /\ callbacks' = after.callbacks
    /\ fired' = [kind |-> kind, stale |-> stale,
                 changed |-> after.refs # refs \/ after.view # view,
                 threw |-> threw, pre |-> pre,
                 dropped |-> {cb.kind : cb \in callbacks \ after.callbacks}]
    /\ UNCHANGED notWebVars

\* onStart(mode)
OnStart(mc) ==
  /\ loop.mounted
  /\ loop.cancels < MaxCancels
  /\ \E st \in {cancelAll(WebSt)}, s \in {startGame(refs, mc)} :
       WebStep("onStart", FALSE, FALSE, Null, [st EXCEPT !.refs = s.refs, !.view = s.view])

\* onRestart()
OnRestart ==
  /\ loop.mounted
  /\ loop.cancels < MaxCancels
  /\ \E st \in {cancelAll(WebSt)} :
       WebStep("onRestart", FALSE, FALSE, Null,
               [st EXCEPT !.refs = createEngineRefs, !.view = createInitialView(Null)])

\* The component unmounts: the cleanups of the two effects.
Unmount ==
  /\ loop.mounted
  /\ loop.cancels < MaxCancels
  /\ \E st \in {cancelAll(WebSt)} :
       WebStep("unmount", FALSE, FALSE, Null,
               [st EXCEPT !.loop.mounted = FALSE, !.loop.effectTimer = Null,
                          !.callbacks = IF st.loop.effectTimer = Null THEN @
                                        ELSE @ \ {st.loop.effectTimer[1]}])

\* onPickPiece(piece)
OnPickPiece(piece) ==
  /\ loop.mounted
  /\ \/ /\ view.phase = "PICKING"
        /\ \E p \in {pickPiece(refs, piece, view)} :
             WebStep("pickPiece", FALSE, p.threw, Null,
                     [WebSt EXCEPT !.refs = p.refs, !.view = p.view])
     \/ /\ view.phase = "WAITING_FOR_PLAYER"
        /\ view.piecesPlaced < MaxWebMoves
        /\ \E p \in {pickNextPiece(refs, piece, view.piecesPlaced)} :
             WebStep("pickNextPiece", FALSE, p.threw, Null,
                     [WebSt EXCEPT !.refs = p.refs, !.view = p.view])

Stale(cb) == cb.epoch < loop.cancels

\* The engine a commit starts from.
PreCommit(placement) ==
  Some([game |-> refs.game, queue |-> refs.queue, colorBoard |-> refs.colorBoard,
        placement |-> placement])

\* The timer of the AI thinking effect fires.
ThinkFire ==
  \E cb \in callbacks :
    /\ cb.kind = "think"
    /\ \E choice \in (IF BotChoices(cb.game, cb.queue) = {} THEN {Null}
                      ELSE {Some(a) : a \in BotChoices(cb.game, cb.queue)}) :
         \E t \in {thinkTimer([WebSt EXCEPT !.callbacks = @ \ {cb}], cb, choice)} :
           WebStep("think", Stale(cb), t.threw,
                   IF t.commit THEN PreCommit(choice[1]) ELSE Null, t.st)

\* An animation frame fires after the delay of its keyframe.
RafFire ==
  \E cb \in callbacks :
    /\ cb.kind = "raf"
    /\ \E t \in {animFrame([WebSt EXCEPT !.callbacks = @ \ {cb}], cb)} :
         WebStep("raf", Stale(cb), t.threw,
                 IF t.commit THEN PreCommit(cb.placement) ELSE Null, t.st)

\* The flash timer fires.
FlashFire ==
  \E cb \in callbacks :
    /\ cb.kind = "flash"
    /\ WebStep("flash", Stale(cb), FALSE, Null,
               flashTimer([WebSt EXCEPT !.callbacks = @ \ {cb}], cb))

\* The collapse timer fires.
CollapseFire ==
  \E cb \in callbacks :
    /\ cb.kind = "collapse"
    /\ WebStep("collapse", Stale(cb), FALSE, Null,
               collapseTimer([WebSt EXCEPT !.callbacks = @ \ {cb}], cb))

WebNext ==
  \/ \E mc \in WebModes : OnStart(mc)
  \/ OnRestart
  \/ Unmount
  \/ \E piece \in WebPieces : OnPickPiece(piece)
  \/ ThinkFire
  \/ RafFire
  \/ FlashFire
  \/ CollapseFire

SpecWeb == WebInit /\ [][WebNext]_vars

\* The browser runs a pending flash timer and a pending collapse timer.
SpecWebLive == SpecWeb /\ WF_vars(FlashFire) /\ WF_vars(CollapseFire)

(***************************************************************************)
(* C31: generatePlacements terminates (SpecBfs).                           *)
(***************************************************************************)
\* No state stands twice in the queue.
EnqueuedOnce ==
  bfsRun # Null =>
    \A i, j \in DOMAIN bfsRun[1].queue : bfsRun[1].queue[i] = bfsRun[1].queue[j] => i = j

\* The iterations made and the states enqueued are at most the encodable
\* states, (width + 8) x (totalHeight + 8) x 4.
StepsBounded ==
  bfsRun # Null =>
    /\ bfsRun[1].head - 1 <= Len(bfsRun[1].queue)
    /\ Len(bfsRun[1].queue) <= (BoardW + 8) * (plBoard.totalHeight + 8) * 4

\* The call has returned.
BfsReturned == plOut # Null

\* The answer is the one of generatePlacements computed in one piece.
BfsAgrees ==
  BfsReturned =>
    plOut = Some(generatePlacements(plBoard, plPiece, bfsArgs[1].x, bfsArgs[1].y,
                                    ModeRotate(plMode), bfsArgs[1].rotation))

\* C31: generatePlacements terminates on every board, piece and spawn
\* state: each (x, y, rotation) state is enqueued at most once, the number
\* of BFS steps is at most the number of encodable states
\* (width + 8) x (totalHeight + 8) x 4, and the call returns.
C31_GeneratePlacementsTerminates == [](EnqueuedOnce /\ StepsBounded) /\ <>BfsReturned

\* A search that has returned after meeting states again: more than ten
\* states were enqueued and several placements found.
C31_Witness ==
  /\ BfsReturned
  /\ bfsRun # Null
  /\ Len(bfsRun[1].queue) > 10
  /\ Len(plOut[1]) > 2

(***************************************************************************)
(* C32: the current piece of a running game fits the board (SpecOps).      *)
(***************************************************************************)
\* C32: in every state reached through the constructor, moveLeft,
\* moveRight, moveDown, rotate, hold, hardDrop and applyPlacement in which
\* gameOver is false, the current piece at (currentX, currentY,
\* currentRotation) does not collide with the board.
C32_CurrentPieceFits ==
  ~game.gameOver =>
    ~Collides(game.board, game.currentPiece, game.currentRotation, game.currentX,
              game.currentY)

\* A game that goes on after an applyPlacement with hold onto a board that
\* already holds cells.
C32_Witness ==
  /\ ~game.gameOver
  /\ callArgs.fn = "applyPlacement"
  /\ callArgs.placement.held
  /\ callArgs.locked
  /\ game.piecesPlaced >= 2
  /\ \E i \in DOMAIN game.board.cells : game.board.cells[i] = 1

(***************************************************************************)
(* C33: game over is absorbing (SpecOps).                                  *)
(***************************************************************************)
\* The board cells and the two counters of g2 are those of g1.
Untouched(g1, g2) ==
  /\ g2.board = g1.board
  /\ g2.linesCleared = g1.linesCleared
  /\ g2.piecesPlaced = g1.piecesPlaced

\* A call made on a game that was over left it over and untouched.
OverStaysOver ==
  (callArgs.fn # "new" /\ callArgs.pre.gameOver) =>
    (game.gameOver /\ Untouched(callArgs.pre, game))

\* An applyPlacement whose hold() set gameOver went no further.
OverInHoldStops ==
  (callArgs.fn = "applyPlacement" /\ callArgs.overAfterHold) =>
    (game.gameOver /\ Untouched(callArgs.pre, game))

\* C33: once gameOver has been set no Game operation sets it back to false,
\* and the board cells, linesCleared and piecesPlaced are never modified
\* afterwards, also not later in the operation that set it (an
\* applyPlacement with held = true whose hold brings in a piece that is
\* blocked at spawn).
C33_GameOverAbsorbing == OverStaysOver /\ OverInHoldStops

(***************************************************************************)
(* C34: the pieces of a beam candidate (SpecBeam).                         *)
(***************************************************************************)
\* The pieces of a sequence with their multiplicities.
PieceBag(seq) == [piece \in Pieces |-> Cardinality({i \in DOMAIN seq : seq[i] = piece})]

\* The known pieces a candidate has drawn on: the snapshot's hold piece,
\* the current piece and the first n preview pieces.
DrawnOn(n) == planSnap.holdPiece \o << planSnap.currentPiece >> \o SubSeq(planSnap.preview, 1, n)

\* The number of preview pieces a candidate's index stands for.
PreviewUsed(book) == IF planBy = "beam" THEN book.index ELSE book.index - 1

\* The candidate followed after the first step is one of level 0 of
\* beamSearchSelect, or one that beamSearch's root node expands to.
FollowsTheSearch ==
  (callArgs.fn = "candidate" /\ callArgs.level = 1) =>
    LET level0 == IF planBy = "beam"
                  THEN beamRoot(planSnap, BCTS_WEIGHTS, planSnap.rotationSystem)
                  ELSE expandNode([board |-> planSnap.board, score |-> 0,
                                   firstAction |-> Null, holdPiece |-> planSnap.holdPiece,
                                   holdUsed |-> planSnap.holdUsed, pieceIndex |-> 0], 0,
                                  planSnap.allowHold, planSnap.board.totalHeight - 4,
                                  BCTS_WEIGHTS, KnownPieces)
    IN  \E i \in DOMAIN level0 : level0[i] = callArgs.cand[1]

\* C34: for every candidate at every level, the pieces placed along its
\* path together with the piece in its hold slot are exactly the snapshot's
\* initial hold piece (if any), the current piece and the first
\* nextPieceIndex preview pieces, each used exactly once, in preview order;
\* a hold branch leaves the displaced piece in the hold slot.
C34_KnownPiecesUsedOnce ==
  (callArgs.fn = "candidate" /\ callArgs.level > 0) =>
    \A book \in callArgs.books :
      /\ PreviewUsed(book) \in 0 .. Len(planSnap.preview)
      /\ PieceBag(callArgs.placed \o book.holdPiece) = PieceBag(DrawnOn(PreviewUsed(book)))

\* A candidate of the third level whose path held twice: the hold slot was
\* empty at first and the piece it took was played later.
C34_Witness ==
  /\ callArgs.fn = "candidate"
  /\ callArgs.level = 3
  /\ planSnap.holdPiece = Null
  /\ callArgs.cand[1].holdPiece # Null
  /\ planSnap.currentPiece \in {callArgs.placed[i] : i \in DOMAIN callArgs.placed}
  /\ callArgs.placed[1] # planSnap.currentPiece

(***************************************************************************)
(* C35: HumanRandomizer.next() never meets an empty queue (SpecWeb).        *)
(***************************************************************************)
\* The bot is asked to move: the AI timer is pending or a placement of its
\* is being animated.
BotAsked == refs.game # Null /\ view.phase \in {"BOT_THINKING", "BOT_ANIMATING"}

QueueFull == Len(refs.queue) >= refs.game[1].config.previewCount

\* C35: in the web game, in both modes and for every sequence of picks and
\* bot moves, no step makes HumanRandomizer.next() throw on an empty queue,
\* and whenever the bot is asked to move the queue holds at least
\* previewCount pieces.
C35_QueueNeverEmpty == ~fired.threw /\ (BotAsked => QueueFull)

\* The bot is asked again after a move that held with an empty hold slot
\* and so drew two pieces.
C35_Witness ==
  /\ BotAsked
  /\ QueueFull
  /\ view.phase = "BOT_THINKING"
  /\ view.piecesPlaced = 1
  /\ refs.game[1].holdPiece # Null
  /\ refs.game[1].piecesPlaced = 1

(***************************************************************************)
(* C36: nothing scheduled before a cancelAll acts after it (SpecWeb).       *)
(***************************************************************************)
NoStalePending == \A cb \in callbacks : ~Stale(cb)

\* C36: after cancelAll (onStart, onRestart, unmount) no timer or animation
\* frame scheduled before it commits a placement or changes the view: none
\* of them is still pending, and no step of one changes refs or view.
C36_CancelledCallbacksInert == NoStalePending /\ ~(fired.stale /\ fired.changed)

\* A restart during the animation of a bot move, after an earlier cancel.
C36_Witness ==
  /\ fired.kind \in {"onStart", "onRestart", "unmount"}
  /\ "raf" \in fired.dropped
  /\ loop.cancels = MaxCancels

(***************************************************************************)
(* C37: a reported line clear names the engine's rows and ends             *)
(* (SpecWebLive).                                                          *)
(***************************************************************************)
\* The ColorBoard has a colour exactly where the engine board is filled.
InStep(cb, board) ==
  \A i \in DOMAIN cb.colors : (cb.colors[i] # Null) = (board.cells[i] = 1)

\* The rows Game.lock() clears when the commit recorded in `pre` locks.
EngineCleared(pre) ==
  LET g0 == [pre.game[1] EXCEPT !.buffer = pre.queue \o << PieceI, PieceI >>]
      g1 == IF pre.placement.held THEN hold(g0, PieceI).game ELSE g0
      pl == placePiece(g1.board, g1.currentPiece, pre.placement.rotation,
                       pre.placement.x, pre.placement.y, Null)
      rows == clearLines(pl.board).rows
  IN  {rows[i] : i \in DOMAIN rows}

\* The step was a commit that reported a line clear.
LineClearReported == fired.pre # Null /\ view.phase = "LINE_CLEARING"

ReportedRowsRight ==
  LineClearReported =>
    /\ view.clearingLines # Null
    /\ Len(view.clearingLines[1]) > 0
    /\ {view.clearingLines[1][i] : i \in DOMAIN view.clearingLines[1]}
         = EngineCleared(fired.pre[1])
    /\ InStep(fired.pre[1].colorBoard[1], fired.pre[1].game[1].board)

\* The ColorBoard and the engine board agree between the moves of a game
\* that is not over.
BoardsInStep ==
  (refs.game # Null /\ refs.colorBoard # Null /\ ~refs.game[1].gameOver)
    => InStep(refs.colorBoard[1], refs.game[1].board)

\* C37: when reducer.applyPlacement reports a line clear, clearingLines is
\* not empty and holds the rows the engine cleared, the ColorBoard having
\* had a colour exactly on the engine's filled cells before the move; and
\* unless a cancelAll (restart, new start, unmount) comes between, the phase
\* LINE_CLEARING of the mounted component leads to WAITING_FOR_PLAYER.
C37_LineClearEnds ==
  /\ [](ReportedRowsRight /\ BoardsInStep)
  /\ \A n \in 0 .. MaxCancels :
       (view.phase = "LINE_CLEARING" /\ loop.mounted /\ loop.cancels = n)
         ~> (view.phase = "WAITING_FOR_PLAYER" \/ loop.cancels > n)

\* The collapse timer has ended a line clear.
C37_Witness ==
  /\ fired.kind = "collapse"
  /\ view.phase = "WAITING_FOR_PLAYER"
  /\ refs.game # Null
  /\ refs.game[1].linesCleared > 0

(***************************************************************************)
(* C38: truncateLock keeps the rows above the playfield empty (SpecTrunc).  *)
(***************************************************************************)
NoCellAbove(b) ==
  \A x \in 0 .. (BoardW - 1), y \in VisibleH .. (b.totalHeight - 1) : ~BoardGet(b, x, y)

\* C38: in a game with truncateLock that starts on the empty board, after
\* every sequence of locks and line clears no cell of a row >= config.height
\* is filled, and simulatePlacement with truncateAbove = height returns no
\* afterstate with a filled cell in such a row.
C38_NothingAboveHeight ==
  game.config.truncateLock =>
    /\ NoCellAbove(game.board)
    /\ (callArgs.fn = "simulatePlacement" /\ callRet # Null)
         => NoCellAbove(callRet[1].board)

\* A simulation that dropped cells of the piece, on the board that a lock
\* with dropped cells and a line clear have left.
C38_Witness ==
  /\ game.config.truncateLock
  /\ callArgs.fn = "simulatePlacement"
  /\ callArgs.afterTruncation
  /\ callRet # Null
  /\ Len(callRet[1].landingCells) < 4
  /\ game.linesCleared > 0

(***************************************************************************)
(* C39: generatePlacementsSimple returns resting positions (SpecSimple).    *)
(***************************************************************************)
Rests(b, piece, p) ==
  /\ ~Collides(b, piece, p.rotation, p.x, p.y)
  /\ Collides(b, piece, p.rotation, p.x, p.y - 1)

\* C39: every placement generatePlacementsSimple returns is the hard-drop
\* resting position of its rotation and x: the piece does not collide at
\* (x, y) and collides at (x, y - 1), also in the rotations whose cells
\* leave the bottom row of the bounding box empty.
C39_SimplePlacementsRest ==
  plOut # Null => \A i \in DOMAIN plOut[1] : Rests(plBoard, plPiece, plOut[1][i])

\* What does hold of the returned placements: none collides, and one with
\* y > 0 rests.
SimpleReturnsFree ==
  plOut # Null =>
    \A i \in DOMAIN plOut[1] :
      /\ ~Collides(plBoard, plPiece, plOut[1][i].rotation, plOut[1][i].x, plOut[1][i].y)
      /\ plOut[1][i].y >= 0
      /\ plOut[1][i].y > 0 => Rests(plBoard, plPiece, plOut[1][i])

====
